---- MODULE Spec2Model ----
(***************************************************************************)
(* A model of nzxtcli: the capability registry and device identity table,  *)
(* the topology handshake (get_channels_info), the frame encoder           *)
(* (set_channel_leds / send_direct / send_apply), the controller operation *)
(* set_fixed_color, discovery (find_controllers) and the three commands of *)
(* the binary (list, set-color, cpu-temp).                                 *)
(*                                                                         *)
(* A report is a sequence of 64 bytes; byte i of the source (0-based) is   *)
(* element i+1 of the sequence.  The HID transport is the environment:     *)
(* open, write and read may each fail, and a read delivers whatever the    *)
(* device sends.                                                           *)
(***************************************************************************)
EXTENDS Integers, Sequences, FiniteSets, TLC

(***************************************************************************)
(* Bounds of the model.                                                    *)
(***************************************************************************)
\* devices on the bus (length of api.device_list())
MaxDevices == 2
\* devices on the bus in the runs of the cpu-temp command (SpecRamp)
MaxRampDevices == 1
\* non-matching reports one handshake reads before the device answers or fails
MaxJunk == 1
\* iterations of the cpu-temp loop that are explored
MaxIter == 2
\* longest colour sequence handed to the frame encoder on its own (SpecEnc)
MaxColors == 64
\* the greatest scaled temperature of the sweep (1000 is the sensor at warn)
MaxScaled == 1001

(***************************************************************************)
(* Program constants.                                                      *)
(***************************************************************************)
NZXT_VID == \H1E71
HUE_2_NUM_CHANNELS == 6
SCALE == 1000
REPORT_LEN == 64
GROUP_LEN == 20
MIN_INTERVAL_MS == 100

Byte == 0..255

\* the sequence f[1], ..., f[n], as a value that is computed where it is written
Seq_(f, n) == SubSeq(f, 1, n)

ZeroReport == Seq_([i \in 1..REPORT_LEN |-> 0], REPORT_LEN)

\* buffer[i] of the source
At(buffer, i) == buffer[i + 1]

\* buffer[i] = b of the source
Put(buffer, i, b) == [buffer EXCEPT ![i + 1] = b]

RECURSIVE BitOr(_, _)
\* a | b on unsigned integers
BitOr(a, b) ==
    IF a = 0 THEN b
    ELSE IF b = 0 THEN a
    ELSE (IF (a % 2 = 1) \/ (b % 2 = 1) THEN 1 ELSE 0) + 2 * BitOr(a \div 2, b \div 2)

\* the shift counts the channels from 3
ChannelMaskFromThree(channel) == (2 ^ (channel + 3)) % 256

\* 0x01u8 << channel (channel < 8 for every caller: the registry has at most 6 channels)
ChannelMask(channel) == (2 ^ channel) % 256

(***************************************************************************)
(* types.rs: Color is the array [green, red, blue].                        *)
(***************************************************************************)
ColorNew(red, green, blue) == <<green, red, blue>>
ColorRed(c) == c[2]
ColorGreen(c) == c[1]
ColorBlue(c) == c[3]

RECURSIVE WrapSlice(_)
\* Color::wrap_slice: the colours' inner arrays laid end to end
WrapSlice(colors) ==
    IF colors = <<>> THEN <<>>
    ELSE Head(colors) \o WrapSlice(Tail(colors))

(***************************************************************************)
(* controller.rs: the capability registry.                                 *)
(***************************************************************************)
\* the registry without the row of the 2024 fan controller
known_controllersTwenty ==
    (\H2009 :> <<"NZXT RGB & Fan Controller", 2, 3>>) @@
    (\H2010 :> <<"NZXT RGB & Fan Controller", 2, 3>>) @@
    (\H200E :> <<"NZXT RGB & Fan Controller", 2, 3>>) @@
    (\H2011 :> <<"NZXT RGB & Fan Controller", 6, 3>>) @@
    (\H2019 :> <<"NZXT RGB & Fan Controller", 6, 3>>) @@
    (\H2020 :> <<"NZXT RGB & Fan Controller", 6, 3>>) @@
    (\H201F :> <<"NZXT RGB & Fan Controller", 6, 3>>) @@
    (\H201B :> <<"NZXT B650E Motherboard", 6, 3>>) @@
    (\H2001 :> <<"NZXT Hue 2", 4, 0>>) @@
    (\H2002 :> <<"NZXT Hue 2 Ambient", 2, 0>>) @@
    (\H2005 :> <<"NZXT Hue 2 Motherboard", 2, 3>>) @@
    (\H200B :> <<"NZXT Hue 2 Motherboard", 2, 3>>) @@
    (\H2007 :> <<"NZXT Kraken X3 Series", 3, 0>>) @@
    (\H2014 :> <<"NZXT Kraken X3 Series RGB", 3, 0>>) @@
    (\H3012 :> <<"NZXT Kraken 2024 ELITE Series RGB", 2, 2>>) @@
    (\H2012 :> <<"NZXT RGB Controller", 3, 0>>) @@
    (\H2021 :> <<"NZXT RGB Controller", 3, 0>>) @@
    (\H2006 :> <<"NZXT Smart Device V2", 2, 3>>) @@
    (\H200D :> <<"NZXT Smart Device V2", 2, 3>>) @@
    (\H200F :> <<"NZXT Smart Device V2", 2, 3>>)

\* NZXTHue2Controller::known_controllers: product id -> (name, rgb, fan channels)
known_controllers ==
    (\H2009 :> <<"NZXT RGB & Fan Controller", 2, 3>>) @@
    (\H2010 :> <<"NZXT RGB & Fan Controller", 2, 3>>) @@
    (\H200E :> <<"NZXT RGB & Fan Controller", 2, 3>>) @@
    (\H2011 :> <<"NZXT RGB & Fan Controller", 6, 3>>) @@
    (\H2019 :> <<"NZXT RGB & Fan Controller", 6, 3>>) @@
    (\H2020 :> <<"NZXT RGB & Fan Controller", 6, 3>>) @@
    (\H201F :> <<"NZXT RGB & Fan Controller", 6, 3>>) @@
    (\H2022 :> <<"NZXT RGB & Fan Controller 2024", 6, 3>>) @@
    (\H201B :> <<"NZXT B650E Motherboard", 6, 3>>) @@
    (\H2001 :> <<"NZXT Hue 2", 4, 0>>) @@
    (\H2002 :> <<"NZXT Hue 2 Ambient", 2, 0>>) @@
    (\H2005 :> <<"NZXT Hue 2 Motherboard", 2, 3>>) @@
    (\H200B :> <<"NZXT Hue 2 Motherboard", 2, 3>>) @@
    (\H2007 :> <<"NZXT Kraken X3 Series", 3, 0>>) @@
    (\H2014 :> <<"NZXT Kraken X3 Series RGB", 3, 0>>) @@
    (\H3012 :> <<"NZXT Kraken 2024 ELITE Series RGB", 2, 2>>) @@
    (\H2012 :> <<"NZXT RGB Controller", 3, 0>>) @@
    (\H2021 :> <<"NZXT RGB Controller", 3, 0>>) @@
    (\H2006 :> <<"NZXT Smart Device V2", 2, 3>>) @@
    (\H200D :> <<"NZXT Smart Device V2", 2, 3>>) @@
    (\H200F :> <<"NZXT Smart Device V2", 2, 3>>)

(***************************************************************************)
(* controller.rs: the device identity table (the match in                  *)
(* get_channels_info): <<led_count, name>>.                                *)
(***************************************************************************)
DeviceIdentity(id) ==
    CASE id = \H01 -> <<10, "Hue 1 strip">>
      [] id = \H02 -> <<8, "Aer 1 fan">>
      [] id = \H04 -> <<10, "Hue 2 strip (10 LEDs)">>
      [] id = \H05 -> <<8, "// Hue 2 strip (8 LEDs)">>
      [] id = \H06 -> <<6, "Hue 2 strip (6 LEDs)">>
      [] id = \H08 -> <<14, "Hue 2 Cable Comb (14 LEDs)">>
      [] id = \H09 -> <<15, "Hue 2 Underglow (300mm) (15 LEDs)">>
      [] id = \H0a -> <<10, "Hue 2 Underglow (200mm) (10 LEDs)">>
      [] id = \H0b -> <<8, "Aer 2 fan (120mm)">>
      [] id = \H0c -> <<8, "Aer 2 fan (140mm)">>
      [] id = \H10 -> <<8, "Kraken X3 ring">>
      [] id = \H11 -> <<1, "Kraken X3 logo">>
      [] id = \H13 -> <<18, "F120 RGB fan (120mm)">>
      [] id = \H14 -> <<18, "F140 RGB fan (140mm)">>
      [] id = \H15 -> <<20, "F120 RGB Duo fan (120mm)">>
      [] id = \H16 -> <<20, "F140 RGB Duo fan (140mm)">>
      [] id = \H17 -> <<8, "F120 RGB Core fan (120mm)">>
      [] id = \H18 -> <<8, "F140 RGB Core fan (140mm)">>
      [] id = \H19 -> <<8, "F120 RGB Core fan case version (120mm)">>
      [] id = \H1d -> <<24, "F360 RGB Core Fan Case Version (360mm)">>
      [] id = \H1e -> <<24, "Kraken Elite Ring">>
      [] OTHER -> <<0, "<unknown>">>

\* ChannelDeviceInfo::default() and RgbChannel::default()
DefaultDeviceInfo == [id |-> 0, name |-> "", led_count |-> 0]
DefaultRgbChannel ==
    [led_count |-> 0,
     devices |-> Seq_([d \in 1..HUE_2_NUM_CHANNELS |-> DefaultDeviceInfo], HUE_2_NUM_CHANNELS)]

\* the inner loop body with channel_info.led_count = led_count for +=
ScanDeviceAssign(buffer, start, dev, channel_info) ==
    LET id == At(buffer, start + dev)
        ident == DeviceIdentity(id)
    IN  IF ident[1] = 0 THEN channel_info
        ELSE [led_count |-> ident[1],
              devices |-> [channel_info.devices EXCEPT
                              ![dev + 1] = [id |-> id, name |-> ident[2],
                                            led_count |-> ident[1]]]]

\* the inner loop body without the continue: every slot is filled in
ScanDeviceNoSkip(buffer, start, dev, channel_info) ==
    LET id == At(buffer, start + dev)
        ident == DeviceIdentity(id)
    IN  [led_count |-> channel_info.led_count + ident[1],
         devices |-> [channel_info.devices EXCEPT
                         ![dev + 1] = [id |-> id, name |-> ident[2],
                                       led_count |-> ident[1]]]]

\* the body of the inner loop of get_channels_info for slot dev of a channel
ScanDevice(buffer, start, dev, channel_info) ==
    LET id == At(buffer, start + dev)
        ident == DeviceIdentity(id)
    IN  IF ident[1] = 0 THEN channel_info
        ELSE [led_count |-> channel_info.led_count + ident[1],
              devices |-> [channel_info.devices EXCEPT
                              ![dev + 1] = [id |-> id, name |-> ident[2],
                                            led_count |-> ident[1]]]]

RECURSIVE ScanDevices(_, _, _, _)
\* for dev in dev..HUE_2_NUM_CHANNELS
ScanDevices(buffer, start, dev, channel_info) ==
    IF dev >= HUE_2_NUM_CHANNELS THEN channel_info
    ELSE ScanDevices(buffer, start, dev + 1, ScanDevice(buffer, start, dev, channel_info))

\* the offset of a channel's first slot in the response
ChannelStart(channel) == \H0f + (HUE_2_NUM_CHANNELS * channel)

RECURSIVE ParseChannels(_, _, _, _)
\* for channel in channel..rgb_channels: result.push(channel_info)
ParseChannels(buffer, rgb_channels, channel, result) ==
    IF channel >= rgb_channels THEN result
    ELSE ParseChannels(buffer, rgb_channels, channel + 1,
            Append(result, ScanDevices(buffer, ChannelStart(channel), 0, DefaultRgbChannel)))

\* the request report of get_channels_info
ChannelsInfoRequest == Put(Put(ZeroReport, 0, \H20), 1, \H03)

\* device.read(&mut buffer): the bytes received overwrite the front of the buffer
ReadInto(buffer, data) ==
    Seq_([i \in 1..REPORT_LEN |-> IF i <= Len(data) THEN data[i] ELSE buffer[i]], REPORT_LEN)

\* the test without ret_val == 64
IsChannelsInfoResponseAnyLen(len, buf) ==
    At(buf, 0) = \H21 /\ At(buf, 1) = \H03

\* the test that ends the read loop of get_channels_info
IsChannelsInfoResponse(len, buf) ==
    len = 64 /\ At(buf, 0) = \H21 /\ At(buf, 1) = \H03

(***************************************************************************)
(* controller.rs: the frame encoder.                                       *)
(***************************************************************************)
\* buffer[0x04..0x04 + len].copy_from_slice(bytes)
CopyFromSlice(buffer, offset, bytes) ==
    Seq_([i \in 1..REPORT_LEN |->
            IF i > offset /\ i <= offset + Len(bytes) THEN bytes[i - offset] ELSE buffer[i]],
         REPORT_LEN)

RECURSIVE RgbBytes(_)
\* the colours as red, green, blue bytes
RgbBytes(colors) ==
    IF colors = <<>> THEN <<>>
    ELSE <<ColorRed(Head(colors)), ColorGreen(Head(colors)), ColorBlue(Head(colors))>>
         \o RgbBytes(Tail(colors))

\* send_direct packing the colours as red, green, blue
DirectReportRgb(channel, group, color_data) ==
    CopyFromSlice(
        Put(Put(Put(Put(ZeroReport, 0, \H22), 1, BitOr(\H10, group)),
                2, ChannelMask(channel)), 3, \H00),
        4, RgbBytes(color_data))

\* send_direct numbering the groups from 1
DirectReportFromOne(channel, group, color_data) ==
    CopyFromSlice(
        Put(Put(Put(Put(ZeroReport, 0, \H22), 1, BitOr(\H10, group + 1)),
                2, ChannelMask(channel)), 3, \H00),
        4, WrapSlice(color_data))

\* the report send_direct writes
DirectReport(channel, group, color_data) ==
    CopyFromSlice(
        Put(Put(Put(Put(ZeroReport, 0, \H22), 1, BitOr(\H10, group)),
                2, ChannelMask(channel)), 3, \H00),
        4, WrapSlice(color_data))

\* the report send_apply writes
ApplyReport(channel) ==
    Put(Put(Put(Put(Put(Put(Put(Put(ZeroReport,
        0, \H22), 1, \Ha0), 2, ChannelMask(channel)), 4, \H01), 7, \H28),
        10, \H80), 12, \H32), 15, \H01)

\* std::cmp::min
Min(a, b) == IF a <= b THEN a ELSE b
Max(a, b) == IF a >= b THEN a ELSE b

\* colors[..count] and colors[count..]
Take(s, count) == SubSeq(s, 1, count)
\* colors = &colors[count + 1..]: one colour is skipped after every group
DropOneMore(s, count) == SubSeq(s, count + 2, Len(s))
Drop(s, count) == SubSeq(s, count + 1, Len(s))

\* a resize that grows the vector and never truncates it
ResizeGrowOnly(vec, new_len, value) ==
    IF new_len <= Len(vec) THEN vec
    ELSE Seq_([i \in 1..new_len |-> IF i <= Len(vec) THEN vec[i] ELSE value], new_len)

\* Vec::resize(new_len, value)
Resize(vec, new_len, value) ==
    Seq_([i \in 1..new_len |-> IF i <= Len(vec) THEN vec[i] ELSE value], new_len)

(***************************************************************************)
(* main.rs: the sensor text and the temperature ramp.                      *)
(***************************************************************************)
Digits == <<"0", "1", "2", "3", "4", "5", "6", "7", "8", "9">>
Whitespace == {" ", "\n", "\t"}
\* a byte that is no valid UTF-8
BadByte == "<ff>"

RECURSIVE TrimStart(_)
TrimStart(s) ==
    IF s # <<>> /\ Head(s) \in Whitespace THEN TrimStart(Tail(s)) ELSE s

RECURSIVE TrimEnd(_)
TrimEnd(s) ==
    IF s # <<>> /\ s[Len(s)] \in Whitespace THEN TrimEnd(SubSeq(s, 1, Len(s) - 1)) ELSE s

\* str::trim
Trim(s) == TrimEnd(TrimStart(s))

\* str::from_utf8 succeeds
IsUtf8(s) == \A k \in 1..Len(s) : s[k] # BadByte

DigitValue(ch) == (CHOOSE k \in 1..10 : Digits[k] = ch) - 1
IsDigit(ch) == \E k \in 1..10 : Digits[k] = ch

RECURSIVE DigitsValue(_, _)
DigitsValue(s, acc) ==
    IF s = <<>> THEN acc ELSE DigitsValue(Tail(s), acc * 10 + DigitValue(Head(s)))

\* str::parse::<u64>: an optional '+', then one or more digits; -1 stands for Err
ParseU64(s) ==
    LET body == IF s # <<>> /\ Head(s) = "+" THEN Tail(s) ELSE s
    IN  IF body # <<>> /\ \A k \in 1..Len(body) : IsDigit(body[k])
        THEN DigitsValue(body, 0)
        ELSE -1

\* the breakpoint table of CmdCpuTemp::run
Ramp ==
    << <<0, ColorNew(\H07, \H05, \H02)>>,
       <<250, ColorNew(\H1B, \H2E, \H04)>>,
       <<600, ColorNew(\H39, \H20, \H02)>>,
       <<700, ColorNew(\H79, \H09, \H00)>>,
       <<900, ColorNew(\Hff, \H00, \H00)>> >>

\* u64::clamp
Clamp(x, lo, hi) == IF x < lo THEN lo ELSE IF x > hi THEN hi ELSE x

\* the weights of the two colours are exchanged
InterpolateSwapped(a, b, t) ==
    LET tc == Clamp(t, 0, SCALE)
    IN  Seq_([k \in 1..3 |-> ((b[k] * (SCALE - tc) + a[k] * tc) \div SCALE) % 256], 3)

\* the quotient is rounded to the nearest value
InterpolateRounded(a, b, t) ==
    LET tc == Clamp(t, 0, SCALE)
    IN  Seq_([k \in 1..3 |->
                ((a[k] * (SCALE - tc) + b[k] * tc + SCALE \div 2) \div SCALE) % 256], 3)

\* interpolate(a, b, t): over the inner arrays
Interpolate(a, b, t) ==
    LET tc == Clamp(t, 0, SCALE)
    IN  Seq_([k \in 1..3 |-> ((a[k] * (SCALE - tc) + b[k] * tc) \div SCALE) % 256], 3)

RECURSIVE RampWalk(_, _, _)
\* the for loop over the ramp: <<color, next_color>>, next_color = <<>> for None
RampWalk(normalized_temp, k, color) ==
    IF k > Len(Ramp) THEN <<color, <<>>>>
    ELSE IF normalized_temp >= Ramp[k][1] THEN RampWalk(normalized_temp, k + 1, Ramp[k])
    ELSE LET t == ((normalized_temp - color[1]) * SCALE) \div (Ramp[k][1] - color[1])
         IN  <<color, <<t, Ramp[k][2]>>>>

\* the scaled temperature of one iteration
NormalizedTemp(parsed, base, warn) ==
    (Clamp(parsed, base * SCALE, warn * SCALE) - base * SCALE) \div (warn - base)

\* the colour of one iteration
RampColor(normalized_temp) ==
    LET w == RampWalk(normalized_temp, 1, Ramp[1])
    IN  IF w[2] = <<>> THEN w[1][2] ELSE Interpolate(w[1][2], w[2][2], w[2][1])

(***************************************************************************)
(* main.rs: the scaled temperature at the width of u64.  A u64 is four     *)
(* limbs of 16 bits, the least significant first.                          *)
(***************************************************************************)
Limb == 2 ^ 16

Zero64 == <<0, 0, 0, 0>>

\* a * m + c for m, c < 2^15: <<the low 64 bits, what is carried out of them>>
MulAdd64(a, m, c) ==
    LET p1 == a[1] * m + c
        p2 == a[2] * m + (p1 \div Limb)
        p3 == a[3] * m + (p2 \div Limb)
        p4 == a[4] * m + (p3 \div Limb)
    IN  << <<p1 % Limb, p2 % Limb, p3 % Limb, p4 % Limb>>, p4 \div Limb >>

\* a.wrapping_mul(m), and whether a * m overflows
WrappingMul64(a, m) == MulAdd64(a, m, 0)[1]
MulOverflows64(a, m) == MulAdd64(a, m, 0)[2] # 0

\* a < b
Less64(a, b) == \E k \in 1..4 : a[k] < b[k] /\ \A j \in (k + 1)..4 : a[j] = b[j]

\* a - b: <<the low 64 bits, the borrow>>; the borrow is 1 when a < b
Sub64(a, b) ==
    LET d1 == a[1] - b[1]
        b1 == IF d1 < 0 THEN 1 ELSE 0
        d2 == a[2] - b[2] - b1
        b2 == IF d2 < 0 THEN 1 ELSE 0
        d3 == a[3] - b[3] - b2
        b3 == IF d3 < 0 THEN 1 ELSE 0
        d4 == a[4] - b[4] - b3
        b4 == IF d4 < 0 THEN 1 ELSE 0
    IN  << <<(d1 + Limb) % Limb, (d2 + Limb) % Limb, (d3 + Limb) % Limb,
             (d4 + Limb) % Limb>>, b4 >>

\* a / d as far as cap + 1: the number of q in 1..cap + 1 with q * d <= a, which is
\* the quotient when it is at most cap, and cap + 1 when it is larger
DivUpTo64(a, d, cap) ==
    Cardinality({ q \in 1..(cap + 1) :
                    ~MulOverflows64(d, q) /\ ~Less64(a, WrappingMul64(d, q)) })

\* u64::clamp(x, lo, hi), lo <= hi
Clamp64(x, lo, hi) == IF Less64(x, lo) THEN lo ELSE IF Less64(hi, x) THEN hi ELSE x

RECURSIVE U64(_)
\* the u64 with the decimal digits ds, as parse::<u64> accumulates it
U64(ds) ==
    IF ds = <<>> THEN Zero64
    ELSE MulAdd64(U64(SubSeq(ds, 1, Len(ds) - 1)), 10, ds[Len(ds)])[1]

(***************************************************************************)
(* The text form of a colour: Display and FromStr of types.rs.  A text is  *)
(* a sequence of characters; "e'" stands for a character of two bytes.     *)
(***************************************************************************)
HexLower == <<"0", "1", "2", "3", "4", "5", "6", "7", "8", "9",
              "a", "b", "c", "d", "e", "f">>
HexUpper == <<"0", "1", "2", "3", "4", "5", "6", "7", "8", "9",
              "A", "B", "C", "D", "E", "F">>

\* {:02x}
Hex2(b) == <<HexLower[(b \div 16) + 1], HexLower[(b % 16) + 1]>>

\* impl Display for Color: "#{:02x}{:02x}{:02x}" of red, green, blue
Display(c) == <<"#">> \o Hex2(ColorRed(c)) \o Hex2(ColorGreen(c)) \o Hex2(ColorBlue(c))

\* char::to_digit(16): -1 stands for None
ToDigit16(ch) ==
    IF \E k \in 1..16 : HexLower[k] = ch THEN (CHOOSE k \in 1..16 : HexLower[k] = ch) - 1
    ELSE IF \E k \in 1..16 : HexUpper[k] = ch
         THEN (CHOOSE k \in 1..16 : HexUpper[k] = ch) - 1
         ELSE -1

RECURSIVE StrLen(_)
\* str::len: the length in bytes
StrLen(s) == IF s = <<>> THEN 0 ELSE (IF Head(s) = "e'" THEN 2 ELSE 1) + StrLen(Tail(s))

\* s.strip_prefix("#"), the text itself for None
StripHash(s) == IF s # <<>> /\ Head(s) = "#" THEN Tail(s) ELSE s

RECURSIVE TrimStartZeros(_)
\* s.trim_start_matches("0")
TrimStartZeros(s) == IF s # <<>> /\ Head(s) = "0" THEN TrimStartZeros(Tail(s)) ELSE s

RECURSIVE Radix16(_, _)
\* the digit loop of from_str_radix: -1 stands for Err(InvalidDigit)
Radix16(s, acc) ==
    IF s = <<>> THEN acc
    ELSE IF ToDigit16(Head(s)) < 0 THEN -1
    ELSE Radix16(Tail(s), acc * 16 + ToDigit16(Head(s)))

\* u32::from_str_radix(s, 16): an optional '+', then one or more hex digits (at most
\* six here, so the value fits); -1 stands for Err
FromStrRadix16(s) ==
    IF s = <<>> THEN -1
    ELSE IF Head(s) \in {"+", "-"} /\ Tail(s) = <<>> THEN -1
    ELSE IF Head(s) = "+" THEN Radix16(Tail(s), 0)
    ELSE Radix16(s, 0)

\* impl FromStr for Color; << >> stands for Err
ColorFromStr(str) ==
    LET s == StripHash(str)
        t == IF TrimStartZeros(s) = <<>> THEN <<"0">> ELSE TrimStartZeros(s)
        v == FromStrRadix16(t)
    IN  IF StrLen(s) # 6 THEN <<>>
        ELSE IF v < 0 THEN <<>>
        ELSE \* let [_, r, g, b] = v.to_be_bytes(); Self([g, r, b])
             <<(v \div 256) % 256, (v \div 65536) % 256, v % 256>>

(***************************************************************************)
(* The environment: the devices on the bus, what they send, the sensor.    *)
(***************************************************************************)
\* what the six slots of each of the six channel positions hold in a response
Unused == <<\H00, \H00, \H00, \H00, \H00, \H00>>
Unrecognized == <<\Hff, \Hff, \Hff, \Hff, \Hff, \Hff>>
\* 8 and 0 LEDs
LayoutFan ==
    << <<\H0b, \Hff, \Hff, \Hff, \Hff, \Hff>>,
       Unrecognized, Unrecognized, Unrecognized, Unrecognized, Unrecognized >>
\* 144, 19 and 40 LEDs
LayoutFull ==
    << <<\H1e, \H1e, \H1e, \H1e, \H1e, \H1e>>,
       <<\H13, \H00, \H11, \H7f, \H00, \H00>>,
       <<\H15, \H16, \H00, \H00, \H00, \H00>>,
       <<\H00, \H00, \H00, \H00, \H00, \H06>>,
       Unused, Unused >>
\* 0 and 21 LEDs
LayoutRising ==
    << <<\H00, \H00, \Hff, \H00, \H00, \H00>>,
       <<\H15, \H00, \H00, \H00, \H00, \H11>>,
       <<\H1d, \H03, \H00, \H00, \H00, \H00>>,
       Unused, Unused, Unused >>

\* a device on the bus: its identifiers and what is attached to its channels
DeviceKinds ==
    { [vendor_id |-> NZXT_VID, product_id |-> \H2006, slots |-> LayoutRising],
      [vendor_id |-> NZXT_VID, product_id |-> \H2007, slots |-> LayoutFull],
      \* an NZXT product that is not in the registry
      [vendor_id |-> NZXT_VID, product_id |-> \H1234, slots |-> LayoutFull],
      \* another vendor's device with a product id of the registry
      [vendor_id |-> \H046d, product_id |-> \H2006, slots |-> LayoutFull] }

DeviceLists == UNION { [1..n -> DeviceKinds] : n \in 0..MaxDevices }
RampDeviceLists == UNION { [1..n -> DeviceKinds] : n \in 0..MaxRampDevices }

\* a 64-byte report with the given first two bytes and slot bytes; the bytes
\* around the slot area are filled with a recognized identifier
ReportWith(b0, b1, layout) ==
    Seq_([k \in 1..REPORT_LEN |->
            LET off == k - 1
            IN  IF off = 0 THEN b0
                ELSE IF off = 1 THEN b1
                ELSE IF off >= \H0f /\ off < \H0f + 36
                     THEN layout[((off - \H0f) \div 6) + 1][((off - \H0f) % 6) + 1]
                ELSE \H01],
         REPORT_LEN)

\* the topology response of a device
MatchingReport(device) == ReportWith(\H21, \H03, device.slots)

\* other reports a device may deliver to a read of the handshake
JunkReports ==
    { ReportWith(\H75, \H03, LayoutRising),                  \* another report type
      ReportWith(\H21, \H01, LayoutRising),                  \* another response
      SubSeq(ReportWith(\H21, \H03, LayoutRising), 1, 32) }  \* a short read

DeviceReports(device) == {MatchingReport(device)} \cup JunkReports

\* the text of the sensor file at one read
SensorTexts ==
    { <<"4", "5", "0", "0", "0", "\n">>,
      <<"9", "9", "0", "0", "0">>,
      <<"n", "/", "a", "\n">>,
      <<"-", "5", "0", "0", "0", "\n">>,
      <<>>,
      <<"4", BadByte, "\n">> }

\* the colours given on the command line
ArgColors == { ColorNew(\H20, \H08, \H01), ColorNew(\H00, \Hff, \H7f) }

\* <<base, warn>> given on the command line
\* <<base, warn, interval in ms>> given on the command line
ArgRamps == { <<0, 80, 50>>, <<40, 60, 250>>, <<80, 80, 50>>, <<90, 80, 250>> }

Commands ==
    { [kind |-> "List", color |-> <<0, 0, 0>>, base |-> 0, warn |-> 0, interval |-> 0] }
    \cup { [kind |-> "SetColor", color |-> c, base |-> 0, warn |-> 0, interval |-> 0] :
             c \in ArgColors }

RampCommands ==
    { [kind |-> "CpuTemp", color |-> <<0, 0, 0>>, base |-> r[1], warn |-> r[2],
       interval |-> r[3]] : r \in ArgRamps }

(***************************************************************************)
(* The state.                                                              *)
(***************************************************************************)
VARIABLES
    arg,          \* the colour argument of the command line, as typed
    cmd,          \* the parsed command line
    devices,      \* api.device_list(): the devices on the bus
    pc,           \* where the program is
    ret,          \* what main returns: "running", "Ok" or the error
    sensor_open,  \* the hwmon file has been opened
    api_init,     \* HidApi::new() has run (it enumerates the bus)
    di,           \* find_controllers: the device the loop is at (1-based)
    opened,       \* the devices open_path has opened
    written,      \* per device, the reports written to it, in order
    nread,        \* per device, the number of reads issued
    buffer,       \* get_channels_info: buffer
    ret_val,      \* get_channels_info: ret_val, the length of the last read
    junk,         \* non-matching reports read by the running handshake
    controllers,  \* the controllers built so far: [dev, name, rgb_channels]
    ci,           \* the command's loop over controllers (1-based)
    color,        \* set_fixed_color: color
    i,            \* set_fixed_color: the channel index of the for loop
    colors,       \* set_fixed_color: colors
    rest,         \* set_channel_leds: colors (the part not yet sent)
    group,        \* set_channel_leds: group
    interval,     \* CmdCpuTemp::run: self.interval after the floor, ms
    wait_until,   \* CmdCpuTemp::run: wait_until, ms after the first Instant::now()
    iter,         \* CmdCpuTemp::run: iterations completed
    text,         \* CmdCpuTemp::run: buffer, the sensor text read last
    now,          \* the clock, ms after the first Instant::now()
    slept,        \* CmdCpuTemp::run: the duration handed to thread::sleep last, ms
    dropped,      \* devices whose NZXTHue2Controller::new returned Err
    failed_write, \* a write of the running set_fixed_color call has failed
    call_start,   \* per device, Len(written) when the latest set_fixed_color began
    call_state,   \* per device, the latest set_fixed_color: none/running/ok/failed
    wide          \* CmdCpuTemp::run at the width of u64: base, warn, temp and the
                  \* scaled temperature of one iteration

vars == <<arg, cmd, devices, pc, ret, sensor_open, api_init, di, opened, written, nread,
          buffer, ret_val, junk, controllers, ci, color, i, colors, rest, group, interval,
          wait_until, iter, text, now, slept, dropped, failed_write, call_start,
          call_state, wide>>

env == <<arg, cmd, devices, wide>>
probe == <<di, opened, nread, buffer, ret_val, junk, controllers, dropped>>
call == <<color, i, colors, rest, group, call_start, call_state>>
loop == <<interval, wait_until, iter, text, now, slept>>

DevIds == 1..Len(devices)

\* a command line without a colour argument
NoArg == [text |-> <<>>, shows |-> <<>>]

\* no temperature is followed at the width of u64
NoWide == [temp |-> Zero64, normalized_temp |-> 0, overflowed |-> FALSE,
           panicked |-> "no"]

\* the state before the step at p, nothing done yet
InitAt(a, c, ds, p) ==
    /\ arg = a
    /\ wide = NoWide
    /\ cmd = c
    /\ devices = ds
    /\ pc = p
    /\ ret = "running"
    /\ sensor_open = FALSE
    /\ api_init = FALSE
    /\ di = 1
    /\ opened = {}
    /\ written = Seq_([d \in 1..Len(ds) |-> <<>>], Len(ds))
    /\ nread = Seq_([d \in 1..Len(ds) |-> 0], Len(ds))
    /\ buffer = ZeroReport
    /\ ret_val = 0
    /\ junk = 0
    /\ controllers = <<>>
    /\ ci = 1
    /\ color = <<0, 0, 0>>
    /\ i = 0
    /\ colors = <<>>
    /\ rest = <<>>
    /\ group = 0
    /\ interval = 0
    /\ wait_until = 0
    /\ iter = 0
    /\ text = <<>>
    /\ now = 0
    /\ slept = 0
    /\ dropped = {}
    /\ failed_write = FALSE
    /\ call_start = Seq_([d \in 1..Len(ds) |-> 0], Len(ds))
    /\ call_state = Seq_([d \in 1..Len(ds) |-> "none"], Len(ds))

\* the command line is parsed, the command is about to run
InitWith(c, ds) == InitAt(NoArg, c, ds, "start")

Init == \E c \in Commands, ds \in DeviceLists : InitWith(c, ds)

InitRamp == \E c \in RampCommands, ds \in RampDeviceLists : InitWith(c, ds)

\* main returns
Return(value) == pc' = "done" /\ ret' = value

(***************************************************************************)
(* main.rs: the commands up to discovery.                                  *)
(***************************************************************************)
\* CmdList::run and CmdSetColor::run begin with HidApi::new()
CmdStart ==
    /\ pc = "start" /\ cmd.kind \in {"List", "SetColor"}
    /\ pc' = "hid_init"
    /\ UNCHANGED <<env, ret, sensor_open, api_init, written, probe, ci, call, loop,
                   failed_write>>

\* the sensor file is opened before base < warn is looked at
CpuTempStartAfterOpen ==
    /\ pc = "start" /\ cmd.kind = "CpuTemp"
    /\ sensor_open' = TRUE
    /\ IF cmd.base < cmd.warn
       THEN /\ pc' = "hid_init"
            /\ interval' = Max(cmd.interval, MIN_INTERVAL_MS)
            /\ ret' = ret
       ELSE /\ Return("ConfigError")
            /\ interval' = interval
    /\ UNCHANGED <<env, api_init, written, probe, ci, call, wait_until,
                   iter, text, now, slept, failed_write>>

\* CmdCpuTemp::run: ensure!(base < warn), the ramp, the interval floor
CpuTempStart ==
    /\ pc = "start" /\ cmd.kind = "CpuTemp"
    /\ IF cmd.base < cmd.warn
       THEN /\ pc' = "open_sensor"
            /\ interval' = Max(cmd.interval, MIN_INTERVAL_MS)
            /\ ret' = ret
       ELSE /\ Return("ConfigError")
            /\ interval' = interval
    /\ UNCHANGED <<env, sensor_open, api_init, written, probe, ci, call, wait_until,
                   iter, text, now, slept, failed_write>>

\* OpenOptions::new().read(true).open(hwmon_path)
OpenSensor ==
    /\ pc = "open_sensor"
    /\ \/ sensor_open' = TRUE /\ pc' = "hid_init" /\ ret' = ret
       \/ sensor_open' = FALSE /\ Return("SensorOpenError")
    /\ UNCHANGED <<env, api_init, written, probe, ci, call, loop, failed_write>>

\* where the command goes on after find_controllers
AfterDiscovery == IF cmd.kind = "List" THEN "list_print"
                  ELSE IF cmd.kind = "SetColor" THEN "set_color_loop"
                  ELSE "ramp_read"

\* HidApi::new(), then the call of find_controllers
HidApiNew ==
    /\ pc = "hid_init"
    /\ \/ api_init' = TRUE /\ pc' = "find_loop" /\ ret' = ret
       \/ api_init' = FALSE /\ Return("HidInitError")
    /\ UNCHANGED <<env, sensor_open, written, probe, ci, call, loop, failed_write>>

(***************************************************************************)
(* lib.rs: find_controllers, with NZXTHue2Controller::new and              *)
(* get_channels_info.                                                      *)
(***************************************************************************)
\* the device is one find_controllers builds a controller for
\* the vendor of the device is not looked at
IsKnownAnyVendor(device) == device.product_id \in DOMAIN known_controllers

IsKnown(device) ==
    device.vendor_id = NZXT_VID /\ device.product_id \in DOMAIN known_controllers

\* one pass of the for loop up to the call of new, or the return of the list
FindNext ==
    /\ pc = "find_loop"
    /\ IF di > Len(devices)
       THEN pc' = AfterDiscovery /\ di' = di
       ELSE IF IsKnown(devices[di])
            THEN pc' = "open" /\ di' = di
            ELSE pc' = "find_loop" /\ di' = di + 1
    /\ UNCHANGED <<env, ret, sensor_open, api_init, opened, written, nread, buffer,
                   ret_val, junk, controllers, dropped, ci, call, loop, failed_write>>

\* the construction of the controller is tried again after an error
DropDeviceRetry ==
    /\ dropped' = dropped \cup {di}
    /\ di' = di
    /\ pc' = "open"

\* Err(e) => { debug!(..); continue } in find_controllers
DropDevice ==
    /\ dropped' = dropped \cup {di}
    /\ di' = di + 1
    /\ pc' = "find_loop"

\* api.open_path(info.path())?
OpenDevice ==
    /\ pc = "open"
    /\ \/ /\ opened' = opened \cup {di}
          /\ buffer' = ChannelsInfoRequest
          /\ pc' = "probe_write"
          /\ UNCHANGED <<di, dropped>>
       \/ /\ DropDevice
          /\ UNCHANGED <<opened, buffer>>
    /\ UNCHANGED <<env, ret, sensor_open, api_init, written, nread, ret_val, junk,
                   controllers, ci, call, loop, failed_write>>

\* device.write(&buffer)? of get_channels_info
ProbeWrite ==
    /\ pc = "probe_write"
    /\ \/ /\ written' = [written EXCEPT ![di] = Append(@, buffer)]
          /\ pc' = "probe_read"
          /\ UNCHANGED <<di, dropped>>
       \/ /\ DropDevice
          /\ UNCHANGED written
    /\ UNCHANGED <<env, ret, sensor_open, api_init, opened, nread, buffer, ret_val, junk,
                   controllers, ci, call, loop, failed_write>>

\* Ok(Self { device, info, name, rgb_channels }) and result.push(entry)
NewController(dev, buf) ==
    [dev |-> dev,
     name |-> known_controllers[devices[dev].product_id][1],
     rgb_channels |->
        ParseChannels(buf, known_controllers[devices[dev].product_id][2], 0, <<>>)]

\* the loop gives up with an error at the first report that does not match
ReadReportChecked(data) ==
    /\ pc = "probe_read"
    /\ buffer' = ReadInto(buffer, data)
    /\ ret_val' = Len(data)
    /\ nread' = [nread EXCEPT ![di] = @ + 1]
    /\ junk' = 0
    /\ IF IsChannelsInfoResponse(ret_val', buffer')
       THEN /\ controllers' = Append(controllers, NewController(di, buffer'))
            /\ di' = di + 1
            /\ pc' = "find_loop"
            /\ UNCHANGED dropped
       ELSE /\ DropDevice
            /\ UNCHANGED controllers
    /\ UNCHANGED <<env, ret, sensor_open, api_init, opened, written, ci, call,
                   loop, failed_write>>

\* one device.read(&mut buffer)? of the loop that received data
ReadReport(data) ==
    /\ pc = "probe_read"
    /\ buffer' = ReadInto(buffer, data)
    /\ ret_val' = Len(data)
    /\ nread' = [nread EXCEPT ![di] = @ + 1]
    /\ IF IsChannelsInfoResponse(ret_val', buffer')
       THEN /\ controllers' = Append(controllers, NewController(di, buffer'))
            /\ di' = di + 1
            /\ junk' = 0
            /\ pc' = "find_loop"
       ELSE /\ junk < MaxJunk
            /\ junk' = junk + 1
            /\ UNCHANGED <<controllers, di, pc>>
    /\ UNCHANGED <<env, ret, sensor_open, api_init, opened, written, dropped, ci, call,
                   loop, failed_write>>

ProbeRead ==
    /\ pc = "probe_read"
    /\ \E data \in DeviceReports(devices[di]) : ReadReport(data)

\* the read of the loop at which the device delivers its topology response
ProbeReadMatching ==
    /\ pc = "probe_read"
    /\ ReadReport(MatchingReport(devices[di]))

\* device.read(&mut buffer)? returned Err: hid_read gave -1 and no length
ProbeReadFail ==
    /\ pc = "probe_read"
    /\ nread' = [nread EXCEPT ![di] = @ + 1]
    /\ ret_val' = -1
    /\ DropDevice
    /\ junk' = 0
    /\ UNCHANGED <<env, ret, sensor_open, api_init, opened, written, buffer,
                   controllers, ci, call, loop, failed_write>>

(***************************************************************************)
(* controller.rs: set_fixed_color and set_channel_leds.                    *)
(***************************************************************************)
\* the device of the controller the command's loop is at
CurDev == controllers[ci].dev

\* controller.set_fixed_color(col) is entered: let mut colors = Vec::new()
BeginCall(col) ==
    /\ color' = col
    /\ colors' = <<>>
    /\ i' = 0
    /\ pc' = "channel_loop"
    /\ call_start' = [call_start EXCEPT ![CurDev] = Len(written[CurDev])]
    /\ call_state' = [call_state EXCEPT ![CurDev] = "running"]
    /\ failed_write' = FALSE

\* where the command goes on after set_fixed_color returned Ok
AfterCall == IF cmd.kind = "SetColor" THEN "set_color_loop" ELSE "ramp_loop"

\* the for loop of set_fixed_color: resize and call set_channel_leds, or return Ok
ChannelNext ==
    /\ pc = "channel_loop"
    /\ IF i >= Len(controllers[ci].rgb_channels)
       THEN /\ call_state' = [call_state EXCEPT ![CurDev] = "ok"]
            /\ ci' = ci + 1
            /\ pc' = AfterCall
            /\ UNCHANGED <<colors, rest, group>>
       ELSE /\ colors' = Resize(colors, controllers[ci].rgb_channels[i + 1].led_count, color)
            /\ rest' = colors'
            /\ group' = 0
            /\ pc' = "send"
            /\ UNCHANGED <<call_state, ci>>
    /\ UNCHANGED <<env, ret, sensor_open, api_init, written, probe, color, i, call_start,
                   loop, failed_write>>

\* a device.write that returned Err inside set_fixed_color: every caller returns it
WriteFailed ==
    /\ failed_write' = TRUE
    /\ call_state' = [call_state EXCEPT ![CurDev] = "failed"]
    /\ Return("WriteError")

\* let _ = send_direct(..): the error of the write is dropped and the loop goes on
SendDirectFailIgnored ==
    /\ failed_write' = TRUE
    /\ rest' = Drop(rest, Min(Len(rest), GROUP_LEN))
    /\ group' = (group + 1) % 256
    /\ UNCHANGED <<written, pc, ret, call_state>>

\* send_direct(device, channel, group, &colors[..count])? with a failing write
SendDirectFail ==
    /\ WriteFailed
    /\ UNCHANGED <<written, rest, group>>

\* one pass of the while loop of set_channel_leds
SendDirect ==
    /\ pc = "send" /\ rest # <<>>
    /\ LET count == Min(Len(rest), GROUP_LEN)
       IN  \/ /\ written' = [written EXCEPT
                                ![CurDev] = Append(@, DirectReport(i, group, Take(rest, count)))]
              /\ rest' = Drop(rest, count)
              /\ group' = (group + 1) % 256
              /\ UNCHANGED <<pc, ret, failed_write, call_state>>
           \/ SendDirectFail
    /\ UNCHANGED <<env, sensor_open, api_init, probe, ci, color, i, colors, call_start, loop>>

\* send_apply(device, channel) with a failing write
SendApplyFail ==
    /\ WriteFailed
    /\ UNCHANGED <<written, i>>

\* send_apply(device, channel), the last statement of set_channel_leds
SendApply ==
    /\ pc = "send" /\ rest = <<>>
    /\ \/ /\ written' = [written EXCEPT ![CurDev] = Append(@, ApplyReport(i))]
          /\ i' = i + 1
          /\ pc' = "channel_loop"
          /\ UNCHANGED <<ret, failed_write, call_state>>
       \/ SendApplyFail
    /\ UNCHANGED <<env, sensor_open, api_init, probe, ci, color, colors, rest, group,
                   call_start, loop>>

(***************************************************************************)
(* main.rs: the commands after discovery.                                  *)
(***************************************************************************)
\* CmdList::run: print_json(info)
ListPrint ==
    /\ pc = "list_print"
    /\ Return("Ok")
    /\ UNCHANGED <<env, sensor_open, api_init, written, probe, ci, call, loop, failed_write>>

\* CmdSetColor::run: for controller in controllers { set_fixed_color(self.color)? }
SetColorNext ==
    /\ pc = "set_color_loop"
    /\ IF ci > Len(controllers)
       THEN /\ Return("Ok")
            /\ UNCHANGED <<call, failed_write>>
       ELSE /\ BeginCall(cmd.color)
            /\ UNCHANGED <<ret, rest, group>>
    /\ UNCHANGED <<env, sensor_open, api_init, written, probe, ci, loop>>

\* a sensor text that does not parse is read as 0
ParseSensorLenient(buf) == IF IsUtf8(buf) /\ ParseU64(Trim(buf)) >= 0
                           THEN ParseU64(Trim(buf)) ELSE 0

\* str::from_utf8(&buffer)?.trim().parse::<u64>()?: -1 stands for the error returned
ParseSensor(buf) == IF IsUtf8(buf) THEN ParseU64(Trim(buf)) ELSE -1

\* CmdCpuTemp::run: the head of the loop, from buffer.clear() to the colour, with
\* the file holding one of texts
RampReadFrom(texts) ==
    /\ pc = "ramp_read" /\ iter < MaxIter
    /\ \/ \* file.seek(..)? or file.read_to_end(..)? fails
          /\ text' = <<>>
          /\ Return("SensorReadError")
          /\ UNCHANGED <<color, ci>>
       \/ \E read \in texts :
            /\ text' = read
            /\ IF ParseSensor(read) < 0
               THEN Return("SensorParseError") /\ UNCHANGED <<color, ci>>
               ELSE /\ color' = RampColor(NormalizedTemp(ParseSensor(read), cmd.base, cmd.warn))
                    /\ ci' = 1
                    /\ pc' = "ramp_loop"
                    /\ ret' = ret
    /\ UNCHANGED <<env, sensor_open, api_init, written, probe, i, colors, rest, group,
                   call_start, call_state, interval, wait_until, iter, now, slept,
                   failed_write>>

\* the head of the loop, the file holding any of the sensor's texts
RampRead == RampReadFrom(SensorTexts)

\* the command returns Ok when every controller has been coloured once
RampNextOnce(durs) ==
    /\ pc = "ramp_loop"
    /\ IF ci > Len(controllers)
       THEN /\ wait_until' = wait_until + interval
            /\ \E dur \in durs :
                  /\ slept' = Max(wait_until' - (now + dur), 0)
                  /\ now' = now + dur + slept'
            /\ iter' = iter + 1
            /\ Return("Ok")
            /\ UNCHANGED <<call, failed_write>>
       ELSE /\ BeginCall(color)
            /\ UNCHANGED <<ret, wait_until, iter, now, slept, rest, group>>
    /\ UNCHANGED <<env, sensor_open, api_init, written, probe, ci, interval, text>>

\* the loop sleeps for the interval after every iteration, whatever it took
RampNextFixedSleep(durs) ==
    /\ pc = "ramp_loop"
    /\ IF ci > Len(controllers)
       THEN /\ \E dur \in durs :
                  /\ slept' = interval
                  /\ now' = now + dur + slept'
            /\ wait_until' = now'
            /\ iter' = iter + 1
            /\ pc' = "ramp_read"
            /\ UNCHANGED <<call, failed_write>>
       ELSE /\ BeginCall(color)
            /\ UNCHANGED <<wait_until, iter, now, slept, rest, group>>
    /\ UNCHANGED <<env, ret, sensor_open, api_init, written, probe, ci, interval, text>>

\* CmdCpuTemp::run: for controller in &controllers { set_fixed_color(color)? },
\* then wait_until += interval and the sleep; the iteration has taken one of durs
\* ms when Instant::now() is read, and duration_since saturates at zero
RampNextIn(durs) ==
    /\ pc = "ramp_loop"
    /\ IF ci > Len(controllers)
       THEN /\ wait_until' = wait_until + interval
            /\ \E dur \in durs :
                  /\ slept' = Max(wait_until' - (now + dur), 0)
                  /\ now' = now + dur + slept'
            /\ iter' = iter + 1
            /\ pc' = "ramp_read"
            /\ UNCHANGED <<call, failed_write>>
       ELSE /\ BeginCall(color)
            /\ UNCHANGED <<wait_until, iter, now, slept, rest, group>>
    /\ UNCHANGED <<env, ret, sensor_open, api_init, written, probe, ci, interval, text>>

\* the tail of the loop, every iteration taking 1 ms before the sleep
RampNext == RampNextIn({1})

\* App::parse() of "set-color <color>": clap hands the argument to Color::from_str
\* and ends the process when it returns Err
ParseArgs ==
    /\ pc = "parse_args"
    /\ IF ColorFromStr(arg.text) = <<>>
       THEN Return("ArgError") /\ cmd' = cmd
       ELSE /\ cmd' = [cmd EXCEPT !.color = ColorFromStr(arg.text)]
            /\ pc' = "start"
            /\ ret' = ret
    /\ UNCHANGED <<arg, devices, wide, sensor_open, api_init, written, probe, ci, call,
                   loop, failed_write>>

\* the list and set-color commands
Next ==
    \/ CmdStart
    \/ HidApiNew
    \/ FindNext
    \/ OpenDevice
    \/ ProbeWrite
    \/ ProbeRead
    \/ ProbeReadFail
    \/ ChannelNext
    \/ SendDirect
    \/ SendApply
    \/ ListPrint
    \/ SetColorNext

Spec == Init /\ [][Next]_vars

(***************************************************************************)
(* Discovery on its own: the list command on every bus, with devices that  *)
(* answer.  The loop of get_channels_info has no iteration limit and calls *)
(* device.read again after every report that does not match, so a device   *)
(* that delivers its topology response again and again has it received at  *)
(* one of the reads, unless a read fails first.                            *)
(***************************************************************************)
\* the buses that are probed: registered devices alone, next to each other, and
\* around devices that are skipped
LiveBuses ==
    LET hue == [vendor_id |-> NZXT_VID, product_id |-> \H2006, slots |-> LayoutRising]
        fans == [vendor_id |-> NZXT_VID, product_id |-> \H2007, slots |-> LayoutFull]
        unknown == [vendor_id |-> NZXT_VID, product_id |-> \H1234, slots |-> LayoutFull]
        foreign == [vendor_id |-> \H046d, product_id |-> \H2006, slots |-> LayoutFull]
    IN  { <<hue>>, <<fans, hue>>, <<hue, fans>>, <<unknown, fans>>, <<hue, foreign>> }

InitLive ==
    \E ds \in LiveBuses :
        InitWith([kind |-> "List", color |-> <<0, 0, 0>>, base |-> 0, warn |-> 0,
                  interval |-> 0], ds)

NextLive ==
    \/ CmdStart
    \/ HidApiNew
    \/ FindNext
    \/ OpenDevice
    \/ ProbeWrite
    \/ ProbeRead
    \/ ProbeReadFail
    \/ ListPrint

SpecLive == InitLive /\ [][NextLive]_vars /\ SF_vars(ProbeReadMatching)

\* the cpu-temp command
NextRamp ==
    \/ CpuTempStart
    \/ OpenSensor
    \/ HidApiNew
    \/ FindNext
    \/ OpenDevice
    \/ ProbeWrite
    \/ ProbeRead
    \/ ProbeReadFail
    \/ ChannelNext
    \/ SendDirect
    \/ SendApply
    \/ RampRead
    \/ RampNext

SpecRamp == InitRamp /\ [][NextRamp]_vars

(***************************************************************************)
(* The ramp on its own: one iteration of the loop of CmdCpuTemp::run with  *)
(* no controller found, the sensor file holding a decimal temperature      *)
(* that sweeps the whole range between base and warn, and past both ends.  *)
(***************************************************************************)
RECURSIVE ToDecimal(_)
\* the decimal text of n, as the kernel writes it to the hwmon file
ToDecimal(n) ==
    IF n < 10 THEN <<Digits[n + 1]>>
    ELSE Append(ToDecimal(n \div 10), Digits[(n % 10) + 1])

\* --base, --warn and --interval of the sweep; with base 0 and warn 1 the scaled
\* temperature is the sensor's value itself
SweepRamps == { <<0, 1, 100>>, <<40, 60, 250>>, <<30, 95, 1000>> }

SweepCommands ==
    { [kind |-> "CpuTemp", color |-> <<0, 0, 0>>, base |-> r[1], warn |-> r[2],
       interval |-> r[3]] : r \in SweepRamps }

\* the sensor's values: for each scaled temperature k the least and the greatest
\* value that scales to k, and a value below base
SweepTemps(c) ==
    { c.base * SCALE + k * (c.warn - c.base) + r :
         k \in 0..MaxScaled, r \in {0, c.warn - c.base - 1} }
    \cup { Max(c.base * SCALE, 1) - 1 }

\* what the sensor file holds
SweepTexts(c) == { Append(ToDecimal(n), "\n") : n \in SweepTemps(c) }

\* the loop is at the head of the last iteration explored: the sensor file and the
\* bus are open, no controller was found, the sensor was at base so far
InitSweep ==
    \E c \in SweepCommands :
        /\ arg = NoArg
        /\ wide = NoWide
        /\ cmd = c
        /\ devices = <<>>
        /\ pc = "ramp_read"
        /\ ret = "running"
        /\ sensor_open = TRUE
        /\ api_init = TRUE
        /\ di = 1
        /\ opened = {}
        /\ written = <<>>
        /\ nread = <<>>
        /\ buffer = ZeroReport
        /\ ret_val = 0
        /\ junk = 0
        /\ controllers = <<>>
        /\ ci = 1
        /\ color = Ramp[1][2]
        /\ i = 0
        /\ colors = <<>>
        /\ rest = <<>>
        /\ group = 0
        /\ interval = Max(c.interval, MIN_INTERVAL_MS)
        /\ iter = MaxIter - 1
        /\ wait_until = (MaxIter - 1) * Max(c.interval, MIN_INTERVAL_MS)
        /\ text = Append(ToDecimal(c.base * SCALE), "\n")
        /\ now = (MaxIter - 1) * Max(c.interval, MIN_INTERVAL_MS)
        /\ slept = Max(c.interval, MIN_INTERVAL_MS) - 1
        /\ dropped = {}
        /\ failed_write = FALSE
        /\ call_start = <<>>
        /\ call_state = <<>>

\* the head of the loop, the file holding a temperature of the sweep
RampSweep == RampReadFrom(SweepTexts(cmd))

NextSweep == RampSweep \/ RampNext

SpecSweep == InitSweep /\ [][NextSweep]_vars

(***************************************************************************)
(* The clock of the ramp: the cpu-temp command with no controller on the   *)
(* bus and a steady sensor, its iterations taking less than, as long as    *)
(* and longer than the interval.  Times are in ms and measured from the    *)
(* instant taken at wait_until = Instant::now(), just before the loop.     *)
(***************************************************************************)
\* --interval: below the floor, the floor, and above it
ClockIntervals == {50, 100, 250}

ClockCommands ==
    { [kind |-> "CpuTemp", color |-> <<0, 0, 0>>, base |-> 40, warn |-> 60,
       interval |-> n] : n \in ClockIntervals }

\* the time from the wake-up of an iteration to the Instant::now() of its sleep
ClockDurations == {1, 50, 100, 101, 250, 700}

\* the sensor stays at 45 degrees
ClockTexts == { Append(ToDecimal(45000), "\n") }

InitClock == \E c \in ClockCommands : InitWith(c, <<>>)

RampClockRead == RampReadFrom(ClockTexts)

RampClockNext == RampNextIn(ClockDurations)

NextClock ==
    \/ CpuTempStart
    \/ OpenSensor
    \/ HidApiNew
    \/ FindNext
    \/ RampClockRead
    \/ RampClockNext

SpecClock == InitClock /\ [][NextClock]_vars

(***************************************************************************)
(* The scaled temperature at the width of u64: the first iteration of the  *)
(* loop of CmdCpuTemp::run after the sensor text has been parsed, with     *)
(* --base, --warn and the sensor's value anywhere in u64.  In this         *)
(* specification cmd.base and cmd.warn are held as limbs.                  *)
(***************************************************************************)
\* <<base, warn>> with base < warn:
\*   0 < 1: the narrowest ramp
\*   40 < 60: a usual ramp
\*   0 < 80: the defaults
\*   40 < 18446744073709551: warn * 1000 is the largest product that fits
\*   18446744073709550 < 18446744073709551: both products fit, just
\*   18446744073709551 < 18446744073709552: warn * 1000 is the first product that does not fit
\*   18446744073709552 < 18446744073709553: neither product fits
\*   0 < 18446744073709552: a wide ramp whose warn * 1000 does not fit
\*   0 < 18446744073709551615: the widest ramp
\*   18446744073709551614 < 18446744073709551615: the highest ramp
\*   9223372036854775808 < 18446744073709551615: base * 1000 is a multiple of 2^64
WideRamps ==
    {
      <<U64(<<0>>),
        U64(<<1>>)>>,
      <<U64(<<4, 0>>),
        U64(<<6, 0>>)>>,
      <<U64(<<0>>),
        U64(<<8, 0>>)>>,
      <<U64(<<4, 0>>),
        U64(<<1, 8, 4, 4, 6, 7, 4, 4, 0, 7, 3, 7, 0, 9, 5, 5, 1>>)>>,
      <<U64(<<1, 8, 4, 4, 6, 7, 4, 4, 0, 7, 3, 7, 0, 9, 5, 5, 0>>),
        U64(<<1, 8, 4, 4, 6, 7, 4, 4, 0, 7, 3, 7, 0, 9, 5, 5, 1>>)>>,
      <<U64(<<1, 8, 4, 4, 6, 7, 4, 4, 0, 7, 3, 7, 0, 9, 5, 5, 1>>),
        U64(<<1, 8, 4, 4, 6, 7, 4, 4, 0, 7, 3, 7, 0, 9, 5, 5, 2>>)>>,
      <<U64(<<1, 8, 4, 4, 6, 7, 4, 4, 0, 7, 3, 7, 0, 9, 5, 5, 2>>),
        U64(<<1, 8, 4, 4, 6, 7, 4, 4, 0, 7, 3, 7, 0, 9, 5, 5, 3>>)>>,
      <<U64(<<0>>),
        U64(<<1, 8, 4, 4, 6, 7, 4, 4, 0, 7, 3, 7, 0, 9, 5, 5, 2>>)>>,
      <<U64(<<0>>),
        U64(<<1, 8, 4, 4, 6, 7, 4, 4, 0, 7, 3, 7, 0, 9, 5, 5, 1, 6, 1, 5>>)>>,
      <<U64(<<1, 8, 4, 4, 6, 7, 4, 4, 0, 7, 3, 7, 0, 9, 5, 5, 1, 6, 1, 4>>),
        U64(<<1, 8, 4, 4, 6, 7, 4, 4, 0, 7, 3, 7, 0, 9, 5, 5, 1, 6, 1, 5>>)>>,
      <<U64(<<9, 2, 2, 3, 3, 7, 2, 0, 3, 6, 8, 5, 4, 7, 7, 5, 8, 0, 8>>),
        U64(<<1, 8, 4, 4, 6, 7, 4, 4, 0, 7, 3, 7, 0, 9, 5, 5, 1, 6, 1, 5>>)>>
    }

\* the digits of the sensor's values: around the bounds of the ramps above, before
\* and after they wrap, and the ends of u64
WideTemps ==
    {
      <<0>>,
      <<3, 8, 3>>,
      <<3, 8, 4>>,
      <<8, 8, 4>>,
      <<1, 3, 8, 4>>,
      <<4, 5, 0, 0, 0>>,
      <<6, 0, 0, 0, 0>>,
      <<1, 8, 4, 4, 6, 7, 4, 4, 0, 7, 3, 7, 0, 9, 5, 5, 0, 5, 0, 0>>,
      <<1, 8, 4, 4, 6, 7, 4, 4, 0, 7, 3, 7, 0, 9, 5, 5, 1, 0, 0, 0>>,
      <<1, 8, 4, 4, 6, 7, 4, 4, 0, 7, 3, 7, 0, 9, 5, 5, 0, 1, 1, 6>>,
      <<1, 8, 4, 4, 6, 7, 4, 4, 0, 7, 3, 7, 0, 9, 5, 5, 1, 6, 1, 5>>
    }

InitWide ==
    \E r \in WideRamps, t \in WideTemps :
        /\ arg = NoArg
        /\ wide = [NoWide EXCEPT !.temp = U64(t)]
        /\ cmd = [kind |-> "CpuTemp", color |-> <<0, 0, 0>>, base |-> r[1], warn |-> r[2],
                  interval |-> MIN_INTERVAL_MS]
        /\ devices = <<>>
        /\ pc = "wide_scale"
        /\ ret = "running"
        /\ sensor_open = TRUE
        /\ api_init = TRUE
        /\ di = 1
        /\ opened = {}
        /\ written = <<>>
        /\ nread = <<>>
        /\ buffer = ZeroReport
        /\ ret_val = 0
        /\ junk = 0
        /\ controllers = <<>>
        /\ ci = 1
        /\ color = <<0, 0, 0>>
        /\ i = 0
        /\ colors = <<>>
        /\ rest = <<>>
        /\ group = 0
        /\ interval = MIN_INTERVAL_MS
        /\ iter = 0
        /\ wait_until = 0
        /\ text = Append(Seq_([k \in 1..Len(t) |-> Digits[t[k] + 1]], Len(t)), "\n")
        /\ now = 0
        /\ slept = 0
        /\ dropped = {}
        /\ failed_write = FALSE
        /\ call_start = <<>>
        /\ call_state = <<>>

\* the thread panics: main does not return
Panic(why) ==
    /\ wide' = [wide EXCEPT !.panicked = why,
                            !.overflowed = MulOverflows64(cmd.base, SCALE)
                                           \/ MulOverflows64(cmd.warn, SCALE)]
    /\ pc' = "done"
    /\ ret' = "Panic"

\* .clamp(self.base * SCALE, self.warn * SCALE) and
\* (temp - self.base * SCALE) / (self.warn - self.base).  A product that does not
\* fit in u64 panics in a build with overflow checks and wraps in a build without;
\* clamp panics when its bounds are not in order
WideScale ==
    /\ pc = "wide_scale"
    /\ LET lo == WrappingMul64(cmd.base, SCALE)
           hi == WrappingMul64(cmd.warn, SCALE)
           over == MulOverflows64(cmd.base, SCALE) \/ MulOverflows64(cmd.warn, SCALE)
           temp == Clamp64(wide.temp, lo, hi)
           diff == Sub64(temp, lo)
           range == Sub64(cmd.warn, cmd.base)
       IN  \/ over /\ Panic("overflow")
           \/ IF Less64(hi, lo) THEN Panic("clamp")
              ELSE IF diff[2] # 0 \/ range[2] # 0 THEN Panic("underflow")
              ELSE IF range[1] = Zero64 THEN Panic("divide")
              ELSE /\ wide' = [wide EXCEPT
                                  !.temp = temp,
                                  !.normalized_temp = DivUpTo64(diff[1], range[1], SCALE),
                                  !.overflowed = over]
                   /\ pc' = "wide_walk"
                   /\ ret' = ret
    /\ UNCHANGED <<arg, cmd, devices, sensor_open, api_init, written, probe, ci, call, loop,
                   failed_write>>

\* the walk over the ramp and the colour, from the scaled temperature
WideWalk ==
    /\ pc = "wide_walk"
    /\ color' = RampColor(wide.normalized_temp)
    /\ pc' = "wide_end"
    /\ UNCHANGED <<env, ret, sensor_open, api_init, written, probe, ci, i, colors, rest,
                   group, call_start, call_state, loop, failed_write>>

NextWide == WideScale \/ WideWalk

SpecWide == InitWide /\ [][NextWide]_vars

(***************************************************************************)
(* Every product of the registry: set-color on a bus with one registered   *)
(* device that has a fan and a logo on each of its six channel rows.       *)
(***************************************************************************)
\* an F120 fan in slot 0 and a Kraken logo in slot 5 of every channel: 19 LEDs
LayoutEvery ==
    << <<\H13, \H00, \H00, \H00, \H00, \H11>>,
       <<\H13, \H00, \H00, \H00, \H00, \H11>>,
       <<\H13, \H00, \H00, \H00, \H00, \H11>>,
       <<\H13, \H00, \H00, \H00, \H00, \H11>>,
       <<\H13, \H00, \H00, \H00, \H00, \H11>>,
       <<\H13, \H00, \H00, \H00, \H00, \H11>> >>

RegistryDevices ==
    { [vendor_id |-> NZXT_VID, product_id |-> p, slots |-> LayoutEvery] :
        p \in DOMAIN known_controllers }

InitRegistry ==
    \E d \in RegistryDevices :
        InitWith([kind |-> "SetColor", color |-> ColorNew(\H20, \H08, \H01), base |-> 0,
                  warn |-> 0, interval |-> 0], <<d>>)

NextRegistry ==
    \/ CmdStart
    \/ HidApiNew
    \/ FindNext
    \/ OpenDevice
    \/ ProbeWrite
    \/ ProbeRead
    \/ ProbeReadFail
    \/ ChannelNext
    \/ SendDirect
    \/ SendApply
    \/ SetColorNext

SpecRegistry == InitRegistry /\ [][NextRegistry]_vars

(***************************************************************************)
(* The colour argument of set-color: the command line is parsed, then the  *)
(* command runs on a bus without devices.                                  *)
(***************************************************************************)
RECURSIVE ToUpper(_)
\* the text with its hex digits a..f in upper case
ToUpper(s) ==
    IF s = <<>> THEN <<>>
    ELSE <<IF ToDigit16(Head(s)) >= 10 THEN HexUpper[ToDigit16(Head(s)) + 1] ELSE Head(s)>>
         \o ToUpper(Tail(s))

\* the values of a colour channel that are tried
ArgChannels == {\H00, \H08, \H1b, \Ha0, \Hff}

\* the colours whose text forms are typed
ArgShown == { ColorNew(r, g, b) : r \in ArgChannels, g \in ArgChannels, b \in ArgChannels }

\* the arguments written for a colour c: its Display form, the same without '#',
\* and both with upper-case digits
ArgForms(c) ==
    { [text |-> t, shows |-> c] :
        t \in { Display(c), Tail(Display(c)), ToUpper(Display(c)),
                ToUpper(Tail(Display(c))) } }

\* arguments that are not six hex digits after one optional '#'
ArgMalformed ==
    { <<>>, <<"#">>, <<"1", "2", "3", "4", "5">>, <<"#", "1", "2", "3", "4", "5">>,
      <<"1", "2", "3", "4", "5", "6", "7">>, <<"#", "1", "2", "3", "4", "5", "6", "7">>,
      <<"1", "2", "3", "4", "5", "g">>, <<"#", "f", "f", "0", "0", "z", "z">>,
      <<"#", "#", "1", "2", "3", "4", "5">>, <<"1", "2", "3", "4", "5", "#">>,
      <<" ", "1", "2", "3", "4", "5">>, <<"f", "f", " ", "0", "0", "0">>,
      <<"e'", "1", "2", "3", "4">>, <<"e'", "1", "2", "3", "4", "5">>,
      <<"-", "1", "2", "3", "4", "5">>, <<"0", "0", "0", "0", "0", "-">>,
      <<"0", "0", "0", "0", "0", "+">>, <<"+", "1", "2", "3", "4", "5">>,
      <<"#", "+", "1", "2", "3", "4", "5">>, <<"0", "0", "+", "f", "f", "f">>,
      <<"+", "+", "1", "2", "3", "4">>, <<"0", "x", "1", "2", "3", "4">> }

ColorArgs ==
    UNION { ArgForms(c) : c \in ArgShown }
    \cup { [text |-> t, shows |-> <<>>] : t \in ArgMalformed }

InitArgs ==
    \E a \in ColorArgs :
        InitAt(a, [kind |-> "SetColor", color |-> <<0, 0, 0>>, base |-> 0, warn |-> 0,
                   interval |-> 0], <<>>, "parse_args")

NextArgs == ParseArgs \/ CmdStart \/ HidApiNew \/ FindNext \/ SetColorNext

SpecArgs == InitArgs /\ [][NextArgs]_vars

(***************************************************************************)
(* The frame encoder on its own: set_channel_leds(device, channel, colors) *)
(* for every channel of the registry and colour sequences of every length  *)
(* up to MaxColors, entered on a controller that has been probed.          *)
(***************************************************************************)
\* the largest rgb_channel_count of the registry
MaxRgbChannels ==
    CHOOSE n \in 0..8 :
        /\ \E p \in DOMAIN known_controllers : known_controllers[p][2] = n
        /\ \A p \in DOMAIN known_controllers : known_controllers[p][2] <= n

EncDevice == [vendor_id |-> NZXT_VID, product_id |-> \H2011, slots |-> LayoutFull]

\* a sequence of n colours, no two neighbours alike and none black
EncColors(n, seed) ==
    Seq_([k \in 1..n |-> ColorNew((seed + 3 * k) % 256, (seed + 3 * k + 1) % 256,
                                  ((seed + 3 * k + 2) % 255) + 1)], n)

EncSeeds == {0, 131}

InitEnc ==
    \E channel \in 0..(MaxRgbChannels - 1), n \in 0..MaxColors, seed \in EncSeeds :
        /\ arg = NoArg
        /\ wide = NoWide
        /\ cmd = [kind |-> "SetColor", color |-> <<0, 0, 0>>, base |-> 0, warn |-> 0,
                  interval |-> 0]
        /\ devices = <<EncDevice>>
        /\ pc = "send"
        /\ ret = "running"
        /\ sensor_open = FALSE
        /\ api_init = TRUE
        /\ di = 2
        /\ opened = {1}
        /\ written = << <<ChannelsInfoRequest>> >>
        /\ nread = <<1>>
        /\ buffer = MatchingReport(EncDevice)
        /\ ret_val = REPORT_LEN
        /\ junk = 0
        /\ controllers =
             << [dev |-> 1, name |-> known_controllers[EncDevice.product_id][1],
                 rgb_channels |-> ParseChannels(MatchingReport(EncDevice),
                                     known_controllers[EncDevice.product_id][2], 0, <<>>)] >>
        /\ ci = 1
        /\ color = <<0, 0, 0>>
        /\ i = channel
        /\ colors = EncColors(n, seed)
        /\ rest = colors
        /\ group = 0
        /\ interval = 0
        /\ wait_until = 0
        /\ iter = 0
        /\ text = <<>>
        /\ now = 0
        /\ slept = 0
        /\ dropped = {}
        /\ failed_write = FALSE
        /\ call_start = <<1>>
        /\ call_state = <<"running">>

NextEnc ==
    \/ SendDirect
    \/ SendApply

SpecEnc == InitEnc /\ [][NextEnc]_vars

(***************************************************************************)
(* The handshake on its own: the list command on one device of each        *)
(* channel count of the registry, the device answering with any report of  *)
(* TopoReports.                                                            *)
(***************************************************************************)
TopoDevices ==
    { [vendor_id |-> NZXT_VID, product_id |-> p, slots |-> LayoutFull] :
        p \in {\H2006, \H2007, \H2001, \H2011} }

\* identifier bytes: every recognized one, their neighbours, and two far ones
TopoIds == (0..\H20) \cup {\H7f, \Hff}

\* the report `base` with byte `off` set to b
WithByte(base, off, b) == Put(base, off, b)

\* responses that differ from a base response in one slot byte
TopoReports ==
    { WithByte(ReportWith(\H21, \H03, l), off, b) :
        l \in {LayoutFan, LayoutFull}, off \in \H0f..(\H0f + 35), b \in TopoIds }

InitTopo ==
    \E d \in TopoDevices :
        InitWith([kind |-> "List", color |-> <<0, 0, 0>>, base |-> 0, warn |-> 0,
                  interval |-> 0], <<d>>)

ProbeReadAny ==
    /\ pc = "probe_read"
    /\ \E data \in TopoReports \cup JunkReports : ReadReport(data)

NextTopo ==
    \/ CmdStart
    \/ HidApiNew
    \/ FindNext
    \/ OpenDevice
    \/ ProbeWrite
    \/ ProbeReadAny
    \/ ProbeReadFail
    \/ ListPrint

SpecTopo == InitTopo /\ [][NextTopo]_vars

(***************************************************************************)
(* What the properties speak of.                                           *)
(***************************************************************************)
\* the reports written to device d by its latest set_fixed_color call
CallLog(d) == SubSeq(written[d], call_start[d] + 1, Len(written[d]))

IsApplyReport(r) == At(r, 0) = \H22 /\ At(r, 1) = \Ha0
IsDirectReport(r) == At(r, 0) = \H22 /\ At(r, 1) # \Ha0

\* the j-th colour position (j = 0..19) of a direct report
TripleAt(r, j) == <<At(r, 4 + 3 * j), At(r, 5 + 3 * j), At(r, 6 + 3 * j)>>

\* the colour positions of a direct report that hold a colour other than black
ColorsCarried(r) == Cardinality({j \in 0..(GROUP_LEN - 1) : TripleAt(r, j) # <<0, 0, 0>>})

\* ceil(n / 20)
GroupsOf(n) == (n + GROUP_LEN - 1) \div GROUP_LEN

\* SpecEnc: the direct reports among the reports of the call so far
EncDirects == IF pc = "channel_loop" THEN Len(CallLog(1)) - 1 ELSE Len(CallLog(1))

\* SpecEnc: the channel set_channel_leds was called with
EncChannel == IF pc = "channel_loop" THEN i - 1 ELSE i

(***************************************************************************)
(* C1.  For a colour sequence of length N handed to set_channel_leds, the  *)
(* device receives ceil(N/20) direct reports and then, when no write       *)
(* fails, exactly one apply report, which is the last write: every direct  *)
(* report but the last carries 20 colours, the last carries the remaining  *)
(* N - 20*(ceil(N/20)-1), and for N = 0 the apply report is the only       *)
(* write.  While the call runs the reports written are the direct reports  *)
(* of the colours consumed so far, and none is an apply report.            *)
(***************************************************************************)
C1_Chunking ==
    LET log == CallLog(1)
        N == Len(colors)
        G == GroupsOf(N)
    IN  /\ EncDirects <= G
        /\ \A g \in 1..EncDirects :
              /\ IsDirectReport(log[g])
              /\ ColorsCarried(log[g]) = IF g < G THEN GROUP_LEN ELSE N - GROUP_LEN * (G - 1)
        /\ pc = "send" =>
              EncDirects = IF rest = <<>> THEN G ELSE (N - Len(rest)) \div GROUP_LEN
        /\ pc = "channel_loop" =>
              /\ ret = "running"
              /\ Len(log) = G + 1
              /\ IsApplyReport(log[G + 1])

\* 41 colours went out as 20, 20 and 1, then the apply report
C1_Witness ==
    /\ pc = "channel_loop"
    /\ Len(colors) = 41
    /\ Len(CallLog(1)) = 4
    /\ ColorsCarried(CallLog(1)[3]) = 1

(***************************************************************************)
(* C2.  Every direct report written for channel c and a group of k <= 20   *)
(* colours is 64 bytes long with byte 0 = 0x22, byte 2 = 1 << c (one bit   *)
(* set), byte 3 = 0, bytes 4+3j, 5+3j, 6+3j the green, red and blue value  *)
(* of the group's j-th colour for j < k, and every byte from 4+3k on zero. *)
(***************************************************************************)
C2_DirectLayout ==
    \A g \in 1..EncDirects :
        LET r == CallLog(1)[g]
            first == GROUP_LEN * (g - 1)
            k == Min(GROUP_LEN, Len(colors) - first)
        IN  /\ Len(r) = REPORT_LEN
            /\ At(r, 0) = \H22
            /\ At(r, 2) = 2 ^ EncChannel
            /\ At(r, 2) \in {1, 2, 4, 8, 16, 32, 64, 128}
            /\ At(r, 3) = \H00
            /\ \A j \in 0..(k - 1) :
                  /\ At(r, 4 + 3 * j) = ColorGreen(colors[first + j + 1])
                  /\ At(r, 5 + 3 * j) = ColorRed(colors[first + j + 1])
                  /\ At(r, 6 + 3 * j) = ColorBlue(colors[first + j + 1])
            /\ \A b \in (4 + 3 * k)..(REPORT_LEN - 1) : At(r, b) = 0

\* the second group of 27 colours, 7 of them, was written for channel 5
C2_Witness ==
    /\ pc = "send"
    /\ i = 5
    /\ Len(colors) = 27
    /\ Len(CallLog(1)) = 2
    /\ At(CallLog(1)[2], 2) = 32
    /\ At(CallLog(1)[2], 4 + 3 * 6) = ColorGreen(colors[27])

\* the direct reports with the channel mask of log[p] among log[1..p-1]
DirectsBefore(log, p) ==
    Cardinality({q \in 1..(p - 1) : IsDirectReport(log[q]) /\ At(log[q], 2) = At(log[p], 2)})

(***************************************************************************)
(* C3.  Among the direct reports one set_fixed_color call sends for one    *)
(* channel, the g-th (g = 0, 1, ...) has byte 1 = 0x10 + g: the high       *)
(* nibble is 1, the low nibble is g, and g <= 15 for every topology the    *)
(* handshake produced.                                                     *)
(***************************************************************************)
C3_GroupIndex ==
    /\ \A d \in DevIds :
          LET log == CallLog(d)
          IN  \A p \in 1..Len(log) :
                 IsDirectReport(log[p]) =>
                    LET g == DirectsBefore(log, p)
                    IN  /\ g <= 15
                        /\ At(log[p], 1) = \H10 + g
                        /\ At(log[p], 1) \div 16 = 1
                        /\ At(log[p], 1) % 16 = g
    /\ \A k \in 1..Len(controllers) :
          \A c \in 1..Len(controllers[k].rgb_channels) :
             GroupsOf(controllers[k].rgb_channels[c].led_count) <= 16

\* the eighth direct report of a channel of 144 LEDs
C3_Witness ==
    \E d \in DevIds :
        \E p \in 1..Len(CallLog(d)) :
            /\ IsDirectReport(CallLog(d)[p])
            /\ DirectsBefore(CallLog(d), p) = 7
            /\ At(CallLog(d)[p], 1) = \H17

\* the LED count the device identity table gives for an identifier byte
TableLeds(id) == DeviceIdentity(id)[1]

\* the identifiers the table recognizes
RecognizedIds ==
    {\H01, \H02, \H04, \H05, \H06, \H08, \H09, \H0a, \H0b, \H0c, \H10, \H11, \H13, \H14,
     \H15, \H16, \H17, \H18, \H19, \H1d, \H1e}

\* the sum of the table's LED counts over the six slot bytes of channel c
SlotSum(response, c) ==
    TableLeds(At(response, \H0f + 6 * c + 0)) + TableLeds(At(response, \H0f + 6 * c + 1))
    + TableLeds(At(response, \H0f + 6 * c + 2)) + TableLeds(At(response, \H0f + 6 * c + 3))
    + TableLeds(At(response, \H0f + 6 * c + 4)) + TableLeds(At(response, \H0f + 6 * c + 5))

(***************************************************************************)
(* C4.  For every accepted 64-byte response and every channel              *)
(* c < rgb_channel_count, the channel's led_count is the sum over the six  *)
(* bytes at 0x0F + 6c + d of the table's LED count of each recognized      *)
(* byte; an unrecognized byte adds 0 (0x13 adds 18, 0x0b adds 8, 0x00      *)
(* adds 0).                                                                *)
(***************************************************************************)
C4_LedCount ==
    /\ TableLeds(\H13) = 18 /\ TableLeds(\H0b) = 8 /\ TableLeds(\H00) = 0
    /\ \A id \in Byte : id \notin RecognizedIds => TableLeds(id) = 0
    /\ \A k \in 1..Len(controllers) :
          LET n == known_controllers[devices[controllers[k].dev].product_id][2]
          IN  /\ At(buffer, 0) = \H21 /\ At(buffer, 1) = \H03
              /\ Len(controllers[k].rgb_channels) = n
              /\ \A c \in 0..(n - 1) :
                    controllers[k].rgb_channels[c + 1].led_count = SlotSum(buffer, c)

\* a response whose channel 1 holds 0x13 and five unrecognized bytes: 18 LEDs;
\* its channel 0 adds up to 8 LEDs
C4_Witness ==
    /\ Len(controllers) = 1
    /\ At(buffer, \H0f + 6) = \H13
    /\ \A d \in 1..5 : At(buffer, \H0f + 6 + d) = \Hff
    /\ controllers[1].rgb_channels[2].led_count = 18
    /\ controllers[1].rgb_channels[1].led_count = 8

\* the controllers built for device d
ControllersOf(d) == {k \in 1..Len(controllers) : controllers[k].dev = d}

\* the handshake of device d has written its request
Requested(d) == nread[d] > 0 \/ call_state[d] # "none" \/ ControllersOf(d) # {}

\* C5, the states: one request report, and the topology of the matching report
C5_State ==
    /\ \A d \in DevIds :
          /\ Requested(d) =>
                /\ Len(written[d]) >= 1
                /\ Len(written[d][1]) = REPORT_LEN
                /\ At(written[d][1], 0) = \H20
                /\ At(written[d][1], 1) = \H03
                /\ \A b \in 2..(REPORT_LEN - 1) : At(written[d][1], b) = 0
          /\ call_state[d] = "none" => Len(written[d]) <= 1
          /\ \A p \in 2..Len(written[d]) : At(written[d][p], 0) # \H20
    /\ \A k \in 1..Len(controllers) :
          LET device == devices[controllers[k].dev]
          IN  controllers[k].rgb_channels =
                 ParseChannels(MatchingReport(device),
                               known_controllers[device.product_id][2], 0, <<>>)

\* C5, the steps: a read that delivers a 64-byte report with bytes 0x21, 0x03 ends the
\* handshake with a controller, any other read leaves the list of controllers as it
\* is, and a device whose handshake has ended is not read again
C5_Step ==
    /\ \A d \in DevIds :
          nread'[d] # nread[d] =>
             /\ d = di
             /\ nread'[d] = nread[d] + 1
             /\ IF ret_val' = REPORT_LEN /\ At(buffer', 0) = \H21 /\ At(buffer', 1) = \H03
                THEN /\ Len(controllers') = Len(controllers) + 1
                     /\ controllers'[Len(controllers')].dev = d
                     /\ di' = d + 1
                ELSE controllers' = controllers
    /\ \A k \in 1..Len(controllers) :
          /\ Len(controllers') >= k
          /\ controllers'[k] = controllers[k]

(***************************************************************************)
(* C5.  The handshake writes exactly one request report (byte 0 = 0x20,    *)
(* byte 1 = 0x03, the rest zero) and then reads until a 64-byte report     *)
(* with byte 0 = 0x21 and byte 1 = 0x03 arrives: the first such report     *)
(* ends the polling, the topology is the one computed from the bytes of    *)
(* that report alone, and the reports read before it leave no trace in it. *)
(***************************************************************************)
C5_Handshake == [](C5_State) /\ [][C5_Step]_vars

\* a controller built after a discarded report, with the topology of its own response
C5_Witness ==
    \E k \in 1..Len(controllers) :
        /\ nread[controllers[k].dev] = 2
        /\ devices[controllers[k].dev].slots = LayoutRising
        /\ controllers[k].rgb_channels[1].led_count = 0
        /\ controllers[k].rgb_channels[2].led_count = 21

\* the channel index a report's mask (byte 2) names
ChannelOf(r) == CHOOSE c \in 0..7 : At(r, 2) = 2 ^ c

\* a colour as it travels: green, red, blue
Wire(c) == <<ColorGreen(c), ColorRed(c), ColorBlue(c)>>

\* the colour positions of the direct reports of channel c in a log that hold the
\* wire colour w
Encoded(log, c, w) ==
    LET ps == {p \in 1..Len(log) : IsDirectReport(log[p]) /\ ChannelOf(log[p]) = c}
    IN  {<<p, j>> \in ps \X (0..(GROUP_LEN - 1)) : TripleAt(log[p], j) = w}

(***************************************************************************)
(* C6.  set_fixed_color(color) goes through the channels in topology order *)
(* 0, 1, ..., n-1: every report of channel i is written before any report  *)
(* of channel i+1, the colours encoded for channel i are exactly that      *)
(* channel's led_count copies of the requested colour (also after a        *)
(* channel with more LEDs, or with fewer), and a call that succeeded has   *)
(* written exactly one apply report per channel, the last report of that   *)
(* channel, channels of 0 LEDs included.                                   *)
(***************************************************************************)
C6_ChannelOrder ==
    LET w == Wire(cmd.color)
        black == <<0, 0, 0>>
    IN  \A k \in 1..Len(controllers) :
           LET d == controllers[k].dev
               log == CallLog(d)
               chans == controllers[k].rgb_channels
               masks == {2 ^ c : c \in 0..(Len(chans) - 1)}
           IN  call_state[d] # "none" =>
                 /\ \A p \in 1..Len(log) :
                       /\ At(log[p], 2) \in masks
                       \* the masks are powers of two: their order is the channels' order
                       /\ p > 1 => At(log[p - 1], 2) <= At(log[p], 2)
                       /\ (p > 1 /\ IsApplyReport(log[p - 1])) =>
                             At(log[p], 2) = 2 * At(log[p - 1], 2)
                       /\ IsDirectReport(log[p]) =>
                             \A j \in 0..(GROUP_LEN - 1) :
                                LET t == TripleAt(log[p], j) IN t = w \/ t = black
                 /\ call_state[d] = "ok" =>
                       \A c \in 0..(Len(chans) - 1) :
                          /\ Cardinality({p \in 1..Len(log) :
                                IsApplyReport(log[p]) /\ ChannelOf(log[p]) = c}) = 1
                          /\ Cardinality(Encoded(log, c, w)) = chans[c + 1].led_count

\* a call that succeeded on channels of 144, 19 and 40 LEDs: 8 + 1 + 2 direct reports
\* and 3 apply reports
C6_Witness ==
    \E k \in 1..Len(controllers) :
        /\ call_state[controllers[k].dev] = "ok"
        /\ controllers[k].rgb_channels[1].led_count = 144
        /\ controllers[k].rgb_channels[2].led_count = 19
        /\ controllers[k].rgb_channels[3].led_count = 40
        /\ Len(CallLog(controllers[k].dev)) = 14

\* C7, the states: a failed write has ended the command with that error
C7_State == failed_write => (pc = "done" /\ ret = "WriteError")

\* C7, the steps: nothing is written once a write has failed, the failed write itself
\* delivers nothing, and what a device has received is never taken back or changed
C7_Step ==
    /\ (failed_write \/ failed_write') => written' = written
    /\ \A d \in DevIds :
          /\ Len(written'[d]) >= Len(written[d])
          /\ SubSeq(written'[d], 1, Len(written[d])) = written[d]

(***************************************************************************)
(* C7.  If a write fails during set_fixed_color, the call returns that     *)
(* error and issues no further write: not the remaining groups nor the     *)
(* apply report of the failing channel, nor anything for later channels;   *)
(* the reports written before stay as they were written.                   *)
(***************************************************************************)
C7_AbortOnWriteError == [](C7_State) /\ [][C7_Step]_vars

\* the write of the second group of channel 1 failed, after the apply report of
\* channel 0 and the first group of channel 1, with a later controller still to come
C7_Witness ==
    /\ failed_write
    /\ pc = "done"
    /\ i = 1
    /\ group = 1
    /\ Len(rest) = 1
    /\ Len(CallLog(CurDev)) = 2
    /\ ci < Len(controllers)
    /\ call_state[controllers[ci + 1].dev] = "none"

\* find_controllers is running
InDiscovery == pc \in {"start", "open_sensor", "hid_init", "find_loop", "open",
                       "probe_write", "probe_read"}

(***************************************************************************)
(* C8 as stated.  When the open, the write or a read of a known device's   *)
(* handshake fails, the caller of find_controllers receives that failure:  *)
(* find_controllers does not hand back a list that lacks the device.       *)
(***************************************************************************)
C8_Surfaced == dropped # {} => (InDiscovery \/ (pc = "done" /\ ret = "DiscoveryError"))

\* C8 amended, the states
C8_State ==
    /\ \A d \in dropped :
          /\ IsKnown(devices[d])
          /\ d < di
          /\ ControllersOf(d) = {}
          /\ Len(written[d]) <= 1
          /\ call_state[d] = "none"
    /\ \A d \in DevIds :
          (d < di /\ IsKnown(devices[d]) /\ d \notin dropped) =>
             Cardinality(ControllersOf(d)) = 1
    /\ ret \in {"running", "Ok", "HidInitError", "WriteError"}
    /\ (~InDiscovery /\ pc # "done") => ret = "running"

\* C8 amended, the steps
C8_Step ==
    \A d \in dropped :
        /\ d \in dropped'
        /\ written'[d] = written[d]
        /\ nread'[d] = nread[d]
        /\ (d \in opened') = (d \in opened)

(***************************************************************************)
(* C8 amended.  A failure of the open, the write or a read of a known      *)
(* device's handshake ends the construction of that one controller and is  *)
(* not surfaced by find_controllers: the device is skipped (it is not      *)
(* retried, written to or read again), discovery goes on with the next     *)
(* device, and the caller receives, without any error, the list of the     *)
(* controllers of the known devices that did not fail.                     *)
(***************************************************************************)
C8_SkippedSilently == [](C8_State) /\ [][C8_Step]_vars

\* the first device failed at a read, the second was found and coloured, the
\* command ended Ok
C8_Witness ==
    /\ pc = "done"
    /\ ret = "Ok"
    /\ dropped = {1}
    /\ nread[1] >= 1
    /\ Len(controllers) = 1
    /\ call_state[2] = "ok"

\* the errors of the sensor's read and parse, returned from inside the loop
SensorErrs == {"SensorReadError", "SensorParseError"}

\* no device was opened, written or read
NoDeviceIO ==
    /\ opened = {}
    /\ \A d \in DevIds : written[d] = <<>> /\ nread[d] = 0

(***************************************************************************)
(* C9 as stated.  In every run of the temperature-ramp command in which    *)
(* the sensor file cannot be read or its content does not parse as a       *)
(* number, no device is opened and no report is written or read before     *)
(* the error is returned.                                                  *)
(***************************************************************************)
C9_BeforeDeviceIO == ret \in SensorErrs => NoDeviceIO

\* the text is decimal digits, after an optional '+', between white space
C9_Numeric(t) ==
    /\ \A k \in 1..Len(t) : t[k] # BadByte
    /\ LET u == Trim(t)
           body == IF u # <<>> /\ Head(u) = "+" THEN Tail(u) ELSE u
       IN  body # <<>> /\ \A k \in 1..Len(body) : IsDigit(body[k])

\* the apply reports written to device d
C9_Applies(d) == Cardinality({j \in 1..Len(written[d]) : IsApplyReport(written[d][j])})

\* C9 amended, the states
C9_State ==
    /\ ret = "SensorOpenError" => (~sensor_open /\ ~api_init /\ NoDeviceIO)
    /\ ret \in SensorErrs =>
          /\ sensor_open /\ api_init
          /\ di > Len(devices)
          /\ \A k \in 1..Len(controllers) :
                LET d == controllers[k].dev
                IN  /\ call_state[d] = (IF iter = 0 THEN "none" ELSE "ok")
                    /\ C9_Applies(d) = iter * Len(controllers[k].rgb_channels)
    /\ ret = "SensorParseError" => ~C9_Numeric(text)
    /\ pc \in {"ramp_loop", "channel_loop", "send"} => C9_Numeric(text)

\* C9 amended, the steps
C9_Step ==
    (ret = "running" /\ ret' \in SensorErrs \cup {"SensorOpenError"}) =>
        UNCHANGED <<opened, written, nread, controllers, call_state>>

(***************************************************************************)
(* C9 amended.  In the temperature-ramp command only a failure to open    *)
(* the sensor file is reported before any device I/O (and before           *)
(* enumeration).  The sensor is read and parsed at the head of every       *)
(* iteration, after discovery: a failed read or a text that is not a       *)
(* number is fatal at that iteration, returned before any report of that   *)
(* iteration is written, when every controller has received the complete   *)
(* writes of the earlier iterations; a malformed text never reaches the    *)
(* colour computation or a device.                                         *)
(***************************************************************************)
C9_FatalAtIteration == [](C9_State) /\ [][C9_Step]_vars

\* the second read of the sensor did not parse, after a device was found and
\* coloured in the first iteration
C9_Witness ==
    /\ pc = "done"
    /\ ret = "SensorParseError"
    /\ iter = 1
    /\ Len(controllers) = 1
    /\ call_state[1] = "ok"
    /\ Len(written[1]) > 1

(***************************************************************************)
(* C10.  When base >= warn, the temperature-ramp command fails with a      *)
(* configuration error before the sensor file is opened, before device     *)
(* enumeration, and before any device is opened, written or read; no       *)
(* report is ever sent in such a run.                                      *)
(***************************************************************************)
C10_ConfigFirst ==
    (cmd.kind = "CpuTemp" /\ cmd.base >= cmd.warn) =>
        /\ ~sensor_open
        /\ ~api_init
        /\ di = 1 /\ controllers = <<>>
        /\ NoDeviceIO
        /\ pc \in {"start", "done"}
        /\ pc = "done" => ret = "ConfigError"

\* the command ended with the configuration error, a known device on the bus
C10_Witness ==
    /\ cmd.kind = "CpuTemp" /\ cmd.base > cmd.warn
    /\ pc = "done" /\ ret = "ConfigError"
    /\ \E d \in DevIds : IsKnown(devices[d])
    /\ NoDeviceIO

\* a colour as the user names it: red, green, blue
Rgb(c) == <<ColorRed(c), ColorGreen(c), ColorBlue(c)>>

\* the sensor's value of the iteration, read from the text digit by digit
SensorTemp == DigitsValue(Trim(text), 0)

\* the scaled temperature of the iteration, 0..1000
ScaledTemp ==
    LET lo == cmd.base * SCALE
        hi == cmd.warn * SCALE
    IN  ((IF SensorTemp < lo THEN lo ELSE IF SensorTemp > hi THEN hi ELSE SensorTemp) - lo)
           \div (cmd.warn - cmd.base)

(***************************************************************************)
(* C11.  Ramp boundaries, for base < warn: a sensor temperature at or      *)
(* below base gives exactly the first breakpoint colour (7,5,2); one at    *)
(* or above warn, and any scaled temperature >= 900, gives exactly the     *)
(* last breakpoint colour (255,0,0); a scaled temperature equal to a       *)
(* threshold 0, 250, 600, 700 or 900 gives exactly that breakpoint's       *)
(* colour.                                                                 *)
(***************************************************************************)
C11_RampBoundaries ==
    pc = "ramp_loop" =>
        /\ cmd.base < cmd.warn
        /\ SensorTemp <= cmd.base * SCALE => Rgb(color) = <<7, 5, 2>>
        /\ SensorTemp >= cmd.warn * SCALE => Rgb(color) = <<255, 0, 0>>
        /\ ScaledTemp >= 900 => Rgb(color) = <<255, 0, 0>>
        /\ ScaledTemp = 0 => Rgb(color) = <<7, 5, 2>>
        /\ ScaledTemp = 250 => Rgb(color) = <<27, 46, 4>>
        /\ ScaledTemp = 600 => Rgb(color) = <<57, 32, 2>>
        /\ ScaledTemp = 700 => Rgb(color) = <<121, 9, 0>>

\* base 40, warn 60, the sensor at 45.019 degrees: scaled 250, the second breakpoint
C11_Witness ==
    /\ pc = "ramp_loop"
    /\ cmd.base = 40 /\ cmd.warn = 60
    /\ SensorTemp = 45019
    /\ ScaledTemp = 250
    /\ Rgb(color) = <<27, 46, 4>>

\* the breakpoints as the user reads them: threshold, then red, green, blue
Breakpoints ==
    << <<0, <<7, 5, 2>>>>, <<250, <<27, 46, 4>>>>, <<600, <<57, 32, 2>>>>,
       <<700, <<121, 9, 0>>>>, <<900, <<255, 0, 0>>>> >>

\* the last breakpoint whose threshold is <= x, for x < 900
SegmentOf(x) == CHOOSE k \in 1..4 : Breakpoints[k][1] <= x /\ x < Breakpoints[k + 1][1]

(***************************************************************************)
(* C12.  For every scaled temperature x in 0..899, with (lo, A) the last   *)
(* breakpoint whose threshold is <= x and (hi, B) the next one, each of    *)
(* red, green and blue of the output is floor((a*(1000-t) + b*t)/1000)     *)
(* where t = floor((x-lo)*1000/(hi-lo)) and t <= 1000; for t = 500 each    *)
(* channel is floor((a+b)/2); every output channel lies between the two    *)
(* endpoint values.                                                        *)
(***************************************************************************)
C12_Interpolation ==
    (pc = "ramp_loop" /\ ScaledTemp < 900) =>
        LET x == ScaledTemp
            k == SegmentOf(x)
            lo == Breakpoints[k][1]
            hi == Breakpoints[k + 1][1]
            A == Breakpoints[k][2]
            B == Breakpoints[k + 1][2]
            t == ((x - lo) * 1000) \div (hi - lo)
        IN  /\ t <= 1000
            /\ \A n \in 1..3 :
                  /\ Rgb(color)[n] = (A[n] * (1000 - t) + B[n] * t) \div 1000
                  /\ t = 500 => Rgb(color)[n] = (A[n] + B[n]) \div 2
                  /\ Min(A[n], B[n]) <= Rgb(color)[n]
                  /\ Rgb(color)[n] <= Max(A[n], B[n])

\* scaled 425, half way from 250 to 600: t = 500 and the colour is the mean
C12_Witness ==
    /\ pc = "ramp_loop"
    /\ ScaledTemp = 425
    /\ Rgb(color) = <<42, 39, 3>>

\* exactly six hexadecimal digits
SixHex(t) == Len(t) = 6 /\ \A k \in 1..6 : ToDigit16(t[k]) >= 0

\* the argument is the text of a colour: its Display form, with or without the '#',
\* in either case of the digits
ShowsColor == arg.shows # <<>>

(***************************************************************************)
(* C13 as stated.  Parsing the Display form "#rrggbb" of a colour c gives  *)
(* a colour with the red, green and blue of c, also with the '#' removed   *)
(* and with the digits in upper case; every text that, after one optional  *)
(* leading '#' is removed, is not exactly six hexadecimal digits is        *)
(* rejected.                                                               *)
(***************************************************************************)
C13_RoundTrip ==
    pc # "parse_args" =>
        /\ ShowsColor => (ret # "ArgError" /\ Rgb(cmd.color) = Rgb(arg.shows))
        /\ ~SixHex(StripHash(arg.text)) => (pc = "done" /\ ret = "ArgError")

\* the half of C13 that holds: the round trip of the text forms of a colour, and
\* the rejection of every text that is not six bytes long after the '#'
C13_RoundTripOnly ==
    pc # "parse_args" =>
        /\ ShowsColor => (ret # "ArgError" /\ Rgb(cmd.color) = Rgb(arg.shows))
        /\ StrLen(StripHash(arg.text)) # 6 => (pc = "done" /\ ret = "ArgError")
        /\ ret # "ArgError" =>
              \/ SixHex(StripHash(arg.text))
              \/ \E k \in 1..6 :
                    /\ StripHash(arg.text)[k] = "+"
                    /\ \A j \in 1..(k - 1) : StripHash(arg.text)[j] = "0"

\* "+12345" was accepted as the colour #012345 and the command ended Ok
C13_Witness ==
    /\ arg.text = <<"+", "1", "2", "3", "4", "5">>
    /\ pc = "done" /\ ret = "Ok"
    /\ Rgb(cmd.color) = <<\H01, \H23, \H45>>

\* the product identifier of device d is not in the Capability Registry
Unregistered(d) == devices[d].product_id \notin DOMAIN known_controllers

\* C14, the states: nothing was done with an unregistered device, and every
\* controller is of a registered NZXT product
C14_State ==
    /\ \A d \in DevIds :
          Unregistered(d) =>
             /\ d \notin opened
             /\ written[d] = <<>>
             /\ nread[d] = 0
             /\ d \notin dropped
             /\ ControllersOf(d) = {}
    /\ \A k \in 1..Len(controllers) :
          LET device == devices[controllers[k].dev]
          IN  /\ device.vendor_id = \H1E71
              /\ device.product_id \in DOMAIN known_controllers
              /\ Len(controllers[k].rgb_channels) = known_controllers[device.product_id][2]

\* C14, the steps: discovery passes an unregistered device without an error and
\* goes on with the next one
C14_Step ==
    (pc = "find_loop" /\ di <= Len(devices) /\ Unregistered(di)) =>
        /\ pc' = "find_loop"
        /\ di' = di + 1
        /\ ret' = ret
        /\ UNCHANGED <<opened, written, nread, controllers, dropped>>

(***************************************************************************)
(* C14.  During discovery a device whose product identifier is not in the  *)
(* Capability Registry is silently skipped: it is never opened, no report  *)
(* is written to or read from it, it produces no error, and discovery      *)
(* continues with the next enumerated device; every controller returned by *)
(* find_controllers has vendor id 0x1E71 and a product id of the registry, *)
(* with a topology of exactly the registry's rgb_channel_count channels.   *)
(***************************************************************************)
C14_SkipUnknown == [](C14_State) /\ [][C14_Step]_vars

\* an NZXT device with the unregistered product id 0x1234 came first and was passed;
\* the registered device after it was found and coloured, and the command ended Ok
C14_Witness ==
    /\ Len(devices) = 2
    /\ devices[1].vendor_id = \H1E71 /\ devices[1].product_id = \H1234
    /\ pc = "done" /\ ret = "Ok"
    /\ 1 \notin opened /\ nread[1] = 0 /\ written[1] = <<>>
    /\ Len(controllers) = 1 /\ controllers[1].dev = 2
    /\ call_state[2] = "ok"

(***************************************************************************)
(* C15 as stated.  The Capability Registry contains exactly twenty product *)
(* identifiers, and lookup of product identifier 0x2006 yields the name    *)
(* "NZXT Smart Device V2", rgb_channel_count 2 and fan_channel_count 3:    *)
(* stated of the registry find_controllers consults once the bus is open.  *)
(***************************************************************************)
C15_TwentyEntries ==
    api_init =>
        /\ Cardinality(DOMAIN known_controllers) = 20
        /\ known_controllers[\H2006] = <<"NZXT Smart Device V2", 2, 3>>

(***************************************************************************)
(* C15 amended.  The Capability Registry contains exactly twenty-one       *)
(* product identifiers: 0x2009, 0x2010, 0x200E, 0x2011, 0x2019, 0x2020,    *)
(* 0x201F, 0x2022, 0x201B, 0x2001, 0x2002, 0x2005, 0x200B, 0x2007, 0x2014, *)
(* 0x3012, 0x2012, 0x2021, 0x2006, 0x200D and 0x200F.  Lookup of 0x2006    *)
(* yields ("NZXT Smart Device V2", 2, 3), and a controller built for a     *)
(* device with that product id has that name and two channels.             *)
(***************************************************************************)
C15_TwentyOneEntries ==
    /\ Cardinality(DOMAIN known_controllers) = 21
    /\ DOMAIN known_controllers =
          {\H2009, \H2010, \H200E, \H2011, \H2019, \H2020, \H201F, \H2022, \H201B,
           \H2001, \H2002, \H2005, \H200B, \H2007, \H2014, \H3012, \H2012, \H2021,
           \H2006, \H200D, \H200F}
    /\ known_controllers[\H2006] = <<"NZXT Smart Device V2", 2, 3>>
    /\ \A k \in 1..Len(controllers) :
          devices[controllers[k].dev].product_id = \H2006 =>
             /\ controllers[k].name = "NZXT Smart Device V2"
             /\ Len(controllers[k].rgb_channels) = 2

\* discovery looked 0x2006 up and built the controller of a Smart Device V2
C15_Witness ==
    \E k \in 1..Len(controllers) :
        /\ devices[controllers[k].dev].product_id = \H2006
        /\ controllers[k].name = "NZXT Smart Device V2"
        /\ Len(controllers[k].rgb_channels) = 2
        /\ pc = "done"

\* the sum of the led_count of the six slots of a channel of a topology
SlotLeds(chan) ==
    chan.devices[1].led_count + chan.devices[2].led_count + chan.devices[3].led_count
    + chan.devices[4].led_count + chan.devices[5].led_count + chan.devices[6].led_count

(***************************************************************************)
(* C16.  The prober's output has exactly rgb_channel_count entries, entry  *)
(* c built from the bytes of channel c; in each, for every slot d in 0..5: *)
(* if the response byte at 0x0F + 6c + d is a recognized identifier, slot  *)
(* d holds that identifier with its table name and LED count; otherwise    *)
(* slot d is the default (id 0, led_count 0).  Hence the channel's         *)
(* led_count is the sum of the led_count of its six slots.                 *)
(***************************************************************************)
C16_Slots ==
    \A k \in 1..Len(controllers) :
        LET n == known_controllers[devices[controllers[k].dev].product_id][2]
            chans == controllers[k].rgb_channels
        IN  /\ Len(chans) = n
            /\ \A c \in 0..(n - 1) :
                  /\ Len(chans[c + 1].devices) = 6
                  /\ \A d \in 0..5 :
                        LET id == At(buffer, \H0f + 6 * c + d)
                            slot == chans[c + 1].devices[d + 1]
                        IN  IF id \in RecognizedIds
                            THEN /\ slot.id = id
                                 /\ slot.name = DeviceIdentity(id)[2]
                                 /\ slot.led_count = DeviceIdentity(id)[1]
                                 /\ slot.led_count > 0
                            ELSE slot.id = 0 /\ slot.led_count = 0
                  /\ chans[c + 1].led_count = SlotLeds(chans[c + 1])

\* channel 1 of a response holds 0x13, 0x00, 0x11, 0x7f, 0x00, 0x00: an F120 fan in
\* slot 0, the Kraken logo in slot 2, the other slots at their default, 19 LEDs
C16_Witness ==
    \E k \in 1..Len(controllers) :
        /\ Len(controllers[k].rgb_channels) >= 2
        /\ At(buffer, \H0f + 6 + 3) = \H7f
        /\ controllers[k].rgb_channels[2].devices[1] =
              [id |-> \H13, name |-> "F120 RGB fan (120mm)", led_count |-> 18]
        /\ controllers[k].rgb_channels[2].devices[3].id = \H11
        /\ controllers[k].rgb_channels[2].devices[4] = [id |-> 0, name |-> "", led_count |-> 0]
        /\ controllers[k].rgb_channels[2].led_count = 19

\* the handshake of device d is in its read loop
Probing(d) == pc = "probe_read" /\ di = d

\* C17, the states: in the read loop nothing has been returned for the device, neither
\* a controller nor an error, however many reports have been read
C17_State ==
    pc = "probe_read" =>
        /\ ret = "running"
        /\ di \notin dropped
        /\ ControllersOf(di) = {}
        /\ Len(written[di]) = 1
        /\ nread[di] >= junk

\* C17, the steps: a read that delivers a report that does not match leaves the
\* prober in its loop; a failed write or read ends it at once with the error, and
\* the device is not read again
C17_Step ==
    /\ (pc = "probe_read" /\ nread' # nread /\ ret_val' >= 0
          /\ ~IsChannelsInfoResponse(ret_val', buffer')) =>
             /\ pc' = "probe_read"
             /\ di' = di
             /\ ret' = "running"
             /\ controllers' = controllers
             /\ dropped' = dropped
    /\ (pc = "probe_read" /\ nread' # nread /\ ret_val' >= 0
          /\ IsChannelsInfoResponse(ret_val', buffer')) =>
             /\ pc' = "find_loop"
             /\ dropped' = dropped
             /\ Len(controllers') = Len(controllers) + 1
             /\ controllers'[Len(controllers')].dev = di
    /\ (pc \in {"probe_write", "probe_read"} /\ dropped' # dropped) =>
             /\ dropped' = dropped \cup {di}
             /\ pc' = "find_loop"
             /\ di' = di + 1
             /\ controllers' = controllers
             /\ written' = written
             /\ nread'[di] = nread[di] + (IF pc = "probe_read" THEN 1 ELSE 0)
             /\ pc = "probe_read" => ret_val' = -1
    /\ \A d \in dropped : nread'[d] = nread[d]

(***************************************************************************)
(* C17.  The read loop of the topology prober ends only by a matching      *)
(* response or by an error.  When no write or read of a device's handshake *)
(* fails and the device delivers its matching response (64 bytes, byte 0 = *)
(* 0x21, byte 1 = 0x03) at some read, the prober returns a topology for    *)
(* the device.  A read that delivers any other report leaves the prober in *)
(* its loop, with nothing returned and no error, however many of them have *)
(* been read.  A failed write or read ends the prober at that step with    *)
(* the error, and the device is not read again.                            *)
(***************************************************************************)
C17_HandshakeTermination ==
    /\ [](C17_State)
    /\ [][C17_Step]_vars
    /\ \A d \in 1..MaxDevices :
          [](d \notin dropped) => (Probing(d) ~> (ControllersOf(d) # {}))

\* the first device failed at its second read, the second device delivered another
\* report and then its response
C17_Witness ==
    /\ Len(devices) = 2
    /\ dropped = {1}
    /\ nread[1] = MaxJunk + 1
    /\ nread[2] = MaxJunk + 1
    /\ ControllersOf(2) # {}

\* the temperature-ramp command is inside its loop
InRampLoop ==
    cmd.kind = "CpuTemp" /\ pc \in {"ramp_read", "ramp_loop", "channel_loop", "send"}

(***************************************************************************)
(* C18 as stated.  No state of the temperature-ramp loop leads to the      *)
(* command returning.                                                      *)
(***************************************************************************)
C18_NeverReturns == [][InRampLoop => pc' # "done"]_vars

\* C18 amended, the states: the loop has returned nothing while it runs, the command
\* never returns Ok, and a step that stays in the loop is possible in each of its
\* states (up to the number of iterations that are followed)
C18_State ==
    /\ InRampLoop => ret = "running"
    /\ cmd.kind = "CpuTemp" => ret # "Ok"
    /\ (InRampLoop /\ iter < MaxIter) => ENABLED (NextRamp /\ pc' # "done")

\* C18 amended, the steps: the loop is left only by the error of a sensor read, of
\* the parse of its text, or of a write of set_fixed_color; the tail of the loop goes
\* back to its head
C18_Step ==
    /\ (InRampLoop /\ pc' = "done") =>
          \/ pc = "ramp_read" /\ ret' \in SensorErrs
          \/ pc = "send" /\ ret' = "WriteError" /\ failed_write'
                /\ written' = written
    /\ (InRampLoop /\ pc' # "done") => InRampLoop'
    /\ (pc = "ramp_loop" /\ ci > Len(controllers)) =>
          pc' = "ramp_read" /\ iter' = iter + 1

(***************************************************************************)
(* C18 amended.  The temperature-ramp loop has no exit condition and       *)
(* never returns success: in every state of the loop a next step of the    *)
(* loop is possible, and after the last controller the loop goes back to   *)
(* reading the sensor.  The command returns from inside the loop only      *)
(* with an error: a failed read of the sensor file, a sensor text that     *)
(* does not parse, or a failed write of set_fixed_color.  Without such an  *)
(* error it runs until the process is ended from outside.                  *)
(***************************************************************************)
C18_OnlyErrorsEndLoop == [](C18_State) /\ [][C18_Step]_vars

\* the loop went round once and was then ended by a failed write to the device
C18_Witness ==
    /\ cmd.kind = "CpuTemp"
    /\ pc = "done"
    /\ ret = "WriteError"
    /\ iter >= 1
    /\ Len(controllers) = 1
    /\ call_state[controllers[1].dev] = "failed"

\* Instant::now() as read for the sleep of the last iteration
NowAtSleep == now - slept

\* C19, the states: after k iterations the target is k intervals after the start,
\* the sleep was the time left to the target or zero, and the loop never wakes
\* before its target
C19_State ==
    cmd.kind = "CpuTemp" /\ pc \in {"ramp_read", "ramp_loop"} =>
        /\ interval = Max(cmd.interval, 100)
        /\ wait_until = iter * interval
        /\ slept = Max(0, wait_until - NowAtSleep)
        /\ NowAtSleep >= wait_until => (slept = 0 /\ now = NowAtSleep)
        /\ NowAtSleep < wait_until => now = wait_until

\* C19, the steps: the tail of an iteration moves the target by one interval,
\* whatever the iteration took and whether or not it overran
C19_Step ==
    iter' # iter =>
        /\ iter' = iter + 1
        /\ interval' = interval
        /\ wait_until' = wait_until + interval
        /\ NowAtSleep' >= now
        /\ slept' = Max(0, wait_until' - NowAtSleep')

(***************************************************************************)
(* C19.  Drift-compensated scheduling: with I = max(interval, 100 ms) and  *)
(* times measured from the instant taken just before the loop, the target  *)
(* wake time at the end of the k-th iteration is exactly k * I whatever    *)
(* the earlier iterations took, and the sleep requested is                 *)
(* max(0, target - now); an iteration that overruns its slot sleeps for    *)
(* zero time and does not shift any later target.                          *)
(***************************************************************************)
C19_DriftCompensated == [](C19_State) /\ [][C19_Step]_vars

\* the first iteration overran its slot and did not sleep; the second ended early
\* and slept up to the unshifted target of two intervals
C19_Witness ==
    /\ cmd.interval = 50
    /\ iter = 2
    /\ wait_until = 200
    /\ slept = 49
    /\ now = 200

\* the byte indices get_channels_info reads for a product with n rgb channels
ProbedIndices(n) ==
    { ChannelStart(c) + d : c \in 0..(n - 1), d \in 0..(HUE_2_NUM_CHANNELS - 1) }

\* the channel-mask bytes of the colour reports written to device d
MasksWritten(d) == { At(written[d][j], 2) : j \in 2..Len(written[d]) }

(***************************************************************************)
(* C20.  Implicit bounds safety: for every entry of the registry, every    *)
(* byte index the prober reads from the 64-byte response (0x0F + 6*c + d   *)
(* for c < rgb_channel_count, d < 6) is at most 63, and every channel      *)
(* index passed to the frame encoder is at most 7, so the mask 1 << c fits *)
(* in one byte and is not zero: discovery and set_fixed_color on a         *)
(* registered product never index out of the report and never write an     *)
(* empty channel mask.                                                     *)
(***************************************************************************)
C20_BoundsSafety ==
    /\ \A p \in DOMAIN known_controllers :
          /\ \A x \in ProbedIndices(known_controllers[p][2]) : x >= 0 /\ x <= 63
          /\ \A c \in 0..(known_controllers[p][2] - 1) :
                c <= 7 /\ 2 ^ c \in 1..255
    /\ Len(buffer) = 64
    /\ \A k \in 1..Len(controllers) :
          LET d == controllers[k].dev
              n == Len(controllers[k].rgb_channels)
          IN  /\ n = known_controllers[devices[d].product_id][2]
              /\ \A x \in ProbedIndices(n) : x + 1 \in DOMAIN buffer
              /\ \A m \in MasksWritten(d) :
                    m # 0 /\ \E c \in 0..(n - 1) : c <= 7 /\ m = 2 ^ c
              /\ \A j \in 1..Len(written[d]) : Len(written[d][j]) = 64
    /\ pc \in {"channel_loop", "send"} =>
          /\ i <= 7
          /\ i <= Len(controllers[ci].rgb_channels)
          /\ pc = "send" => (i < Len(controllers[ci].rgb_channels) /\ ChannelMask(i) \in 1..255)

\* a product with six channels was probed up to byte 50 of the response, and every
\* channel up to the last, with mask 0x20, was coloured
C20_Witness ==
    /\ pc = "done" /\ ret = "Ok"
    /\ Len(controllers) = 1
    /\ Len(controllers[1].rgb_channels) = 6
    /\ controllers[1].rgb_channels[6].devices[6].id = \H11
    /\ MasksWritten(1) = {1, 2, 4, 8, 16, 32}

\* u64::MAX / 1000, the largest u64 whose product with SCALE fits
WideLimit == U64(<<1, 8, 4, 4, 6, 7, 4, 4, 0, 7, 3, 7, 0, 9, 5, 5, 1>>)

\* a <= b at the width of u64
LessEq64(a, b) == ~Less64(b, a)

\* the scaled temperature of the iteration has been computed
WideScaled == pc \in {"wide_walk", "wide_end"}

(***************************************************************************)
(* C21 as stated.  For all base < warn and every sensor value in u64, the  *)
(* scaled temperature is computed without a product that overflows 64      *)
(* bits, without a subtraction below zero, a division by zero or a panic,  *)
(* and it is within 0..=1000.                                              *)
(***************************************************************************)
C21_ArithmeticSafe ==
    /\ ~wide.overflowed
    /\ wide.panicked = "no"
    /\ ret # "Panic"
    /\ wide.normalized_temp \in 0..SCALE

\* What holds of the arithmetic.  When warn is at most u64::MAX / 1000 no product
\* overflows, nothing panics, and the scaled temperature is the quotient, within
\* 0..=1000, of (temp - base * 1000) by (warn - base).  A product overflows exactly
\* when its factor is above u64::MAX / 1000; a run that does not panic stays within
\* 0..=1000 even then; no run subtracts below zero or divides by zero.
C21_SafeUpToLimit ==
    /\ LessEq64(cmd.warn, WideLimit) => C21_ArithmeticSafe
    /\ (pc # "wide_scale" /\ Less64(WideLimit, cmd.warn)) => wide.overflowed
    /\ wide.panicked \in {"no", "overflow", "clamp"}
    /\ wide.panicked = "clamp" =>
          Less64(WrappingMul64(cmd.warn, SCALE), WrappingMul64(cmd.base, SCALE))
    /\ wide.normalized_temp \in 0..SCALE
    /\ WideScaled =>
          LET lo == WrappingMul64(cmd.base, SCALE)
              hi == WrappingMul64(cmd.warn, SCALE)
              range == Sub64(cmd.warn, cmd.base)[1]
              diff == Sub64(wide.temp, lo)[1]
              q == wide.normalized_temp
          IN  /\ LessEq64(lo, wide.temp) /\ LessEq64(wide.temp, hi)
              /\ ~MulOverflows64(range, q)
              /\ LessEq64(WrappingMul64(range, q), diff)
              /\ Less64(Sub64(diff, WrappingMul64(range, q))[1], range)

\* --base 18446744073709552 --warn 18446744073709553: both products wrapped, to 384
\* and 1384, and a sensor value of 884, less than one degree, is scaled to the middle
\* of the ramp
C21_Witness ==
    /\ pc = "wide_end"
    /\ cmd.base = U64(<<1, 8, 4, 4, 6, 7, 4, 4, 0, 7, 3, 7, 0, 9, 5, 5, 2>>)
    /\ cmd.warn = U64(<<1, 8, 4, 4, 6, 7, 4, 4, 0, 7, 3, 7, 0, 9, 5, 5, 3>>)
    /\ text = <<"8", "8", "4", "\n">>
    /\ wide.overflowed
    /\ wide.temp = U64(<<8, 8, 4>>)
    /\ wide.normalized_temp = 500

====
